---- MODULE Spec2Model ----
(***************************************************************************)
(* Game Boy (DMG) core: the CPU interpreter of src/src/gameboy/cpu.py on   *)
(* the memory bus of src/src/gameboy/memory.py.                            *)
(*                                                                         *)
(* The cartridge ROM is an input.  A CPU step sees the ROM through a       *)
(* "view": the three bytes at PC, PC+1, PC+2 and one byte that stands for  *)
(* every other ROM offset.  Everything the bus can store (VRAM, external   *)
(* RAM, work RAM, OAM, I/O, HRAM, IE, the banking registers) is state.     *)
(* The RAM arrays are kept sparse: an index that is absent holds the       *)
(* value the constructor gave it.                                          *)
(***************************************************************************)
EXTENDS Integers, Sequences, FiniteSets, TLC

\* ------------------------------------------------------------------ bounds
\* A CPU step is taken only while the cycle accumulator is less than this
\* many T-cycles past its value in the initial state.
MaxCycles == 13

\* ------------------------------------------------------------ bit helpers
RECURSIVE AndN(_, _, _)
AndN(x, y, n) ==
    IF n = 0 THEN 0
    ELSE (x % 2) * (y % 2) + 2 * AndN(x \div 2, y \div 2, n - 1)

\* x & y where at least one of x, y is a byte
And(x, y) == AndN(x, y, 8)
Or(x, y) == x + y - And(x, y)
Xor(x, y) == x + y - 2 * And(x, y)
Bit(x, i) == (x \div (2 ^ i)) % 2
TestBit(x, i) == Bit(x, i) = 1
\* x & ~mask on a byte (Python's ~mask is negative; write_byte keeps 8 bits)
AndNot(x, mask) == x - And(x, mask)
W16(x) == x % 65536
W8(x) == x % 256

\* --------------------------------------------------------- sparse arrays
Get(arr, i, dflt) == IF i \in DOMAIN arr THEN arr[i] ELSE dflt

Put(arr, i, v, dflt) ==
    IF v = dflt
    THEN [k \in (DOMAIN arr) \ {i} |-> arr[k]]
    ELSE [k \in (DOMAIN arr) \cup {i} |-> IF k = i THEN v ELSE arr[k]]

Empty == [k \in {} |-> 0]

\* ------------------------------------------------------------------ ROM
\* The ROM image as one CPU step sees it: offsets base, base+1, base+2 hold
\* b0, b1, b2 and every other offset holds other; len is len(self.rom).
RomLen == 32768

RomView(base, b0, b1, b2, other) ==
    [base |-> base, b0 |-> b0, b1 |-> b1, b2 |-> b2, other |-> other,
     len |-> RomLen]

RomAt(rom, i) ==
    IF i = rom.base THEN rom.b0
    ELSE IF i = rom.base + 1 THEN rom.b1
    ELSE IF i = rom.base + 2 THEN rom.b2
    ELSE rom.other

\* --------------------------------------------------------------- Memory
\* Memory.init_post_boot_state followed by Memory.load_rom (game ROM) and
\* init_post_boot_dmg: the value of io[i] when nothing has written it.
IoInit(i) ==
    CASE i = 0 -> 207 [] i = 1 -> 0 [] i = 2 -> 126
      [] i = 4 -> 171 [] i = 7 -> 248 [] i = 15 -> 225
      [] i = 16 -> 128 [] i = 17 -> 191 [] i = 18 -> 243 [] i = 19 -> 255
      [] i = 20 -> 191 [] i = 22 -> 63 [] i = 24 -> 255 [] i = 25 -> 191
      [] i = 26 -> 127 [] i = 27 -> 255 [] i = 28 -> 159 [] i = 29 -> 255
      [] i = 30 -> 191 [] i = 32 -> 255 [] i = 35 -> 191
      [] i = 36 -> 119 [] i = 37 -> 243 [] i = 38 -> 241
      [] i = 64 -> 145 [] i = 65 -> 133 [] i = 70 -> 255 [] i = 71 -> 252
      [] i = 72 -> 255 [] i = 73 -> 255 [] i = 80 -> 1
      [] OTHER -> 0

IoGet(mem, i) == Get(mem.io, i, IoInit(i))
IoPut(mem, i, v) == [mem EXCEPT !.io = Put(mem.io, i, v, IoInit(i))]

\* Memory.__init__
MemoryInit ==
    [vram |-> Empty, eram |-> Empty, wram |-> Empty, oam |-> Empty,
     io |-> Empty, hram |-> Empty, ie |-> 0,
     rom_bank |-> 1, ram_bank |-> 0, banking_mode |-> 0,
     ram_enabled |-> FALSE, boot_rom |-> Empty, boot_rom_enabled |-> FALSE,
     joypad_buttons |-> 15, joypad_directions |-> 15]

\* Memory.read_joypad
read_joypad(mem) ==
    LET joypad_reg == IoGet(mem, 0) IN
    IF ~TestBit(joypad_reg, 5) THEN Or(Or(192, 32), ((mem.joypad_buttons) % 16))
    ELSE IF ~TestBit(joypad_reg, 4)
         THEN Or(Or(192, 16), ((mem.joypad_directions) % 16))
    ELSE Or(192, 63)

\* Registers owned by the timer, the serial port and the APU: the bus hands
\* them to the device; they are outside the fragment modelled here.
DeviceReg(address) ==
    \/ address \in 65281..65282
    \/ address \in 65284..65287
    \/ address \in 65296..65343

\* read_byte that selects the bank by the low five bits of rom_bank alone
read_byte_low_bank(mem, rom, address0) ==
    LET address == W16(address0) IN
    IF address < 256 /\ mem.boot_rom_enabled THEN Get(mem.boot_rom, address, 0)
    ELSE IF address < 16384 THEN
        IF address < rom.len THEN RomAt(rom, address) ELSE 255
    ELSE IF address < 32768 THEN
        LET bank_address ==
                IF mem.rom_bank = 0 THEN (address - 16384) + 16384
                ELSE (address - 16384) + (mem.rom_bank % 32) * 16384
        IN IF bank_address < rom.len THEN RomAt(rom, bank_address) ELSE 255
    ELSE IF address < 40960 THEN Get(mem.vram, address - 32768, 0)
    ELSE IF address < 49152 THEN
        IF mem.ram_enabled THEN Get(mem.eram, address - 40960, 0) ELSE 255
    ELSE IF address < 57344 THEN Get(mem.wram, address - 49152, 0)
    ELSE IF address < 65024 THEN Get(mem.wram, address - 57344, 0)
    ELSE IF address < 65184 THEN Get(mem.oam, address - 65024, 0)
    ELSE IF address < 65280 THEN 255
    ELSE IF address < 65408 THEN
        IF address = 65280 THEN read_joypad(mem)
        ELSE IoGet(mem, address - 65280)
    ELSE IF address < 65535 THEN Get(mem.hram, address - 65408, 0)
    ELSE mem.ie

\* read_byte whose OAM arm runs up to 0xFEFF: the restricted area reads OAM
read_byte_oam_mirror(mem, rom, address0) ==
    LET address == W16(address0) IN
    IF address < 256 /\ mem.boot_rom_enabled THEN Get(mem.boot_rom, address, 0)
    ELSE IF address < 16384 THEN
        IF address < rom.len THEN RomAt(rom, address) ELSE 255
    ELSE IF address < 32768 THEN
        LET bank_address ==
                IF mem.rom_bank = 0 THEN (address - 16384) + 16384
                ELSE (address - 16384) + mem.rom_bank * 16384
        IN IF bank_address < rom.len THEN RomAt(rom, bank_address) ELSE 255
    ELSE IF address < 40960 THEN Get(mem.vram, address - 32768, 0)
    ELSE IF address < 49152 THEN
        IF mem.ram_enabled THEN Get(mem.eram, address - 40960, 0) ELSE 255
    ELSE IF address < 57344 THEN Get(mem.wram, address - 49152, 0)
    ELSE IF address < 65024 THEN Get(mem.wram, address - 57344, 0)
    ELSE IF address < 65280 THEN Get(mem.oam, address - 65024, 0)
    ELSE IF address < 65408 THEN
        IF address = 65280 THEN read_joypad(mem)
        ELSE IoGet(mem, address - 65280)
    ELSE IF address < 65535 THEN Get(mem.hram, address - 65408, 0)
    ELSE mem.ie

\* read_byte that reads external RAM whether it is enabled or not
read_byte_ungated(mem, rom, address0) ==
    LET address == W16(address0) IN
    IF address < 256 /\ mem.boot_rom_enabled THEN Get(mem.boot_rom, address, 0)
    ELSE IF address < 16384 THEN
        IF address < rom.len THEN RomAt(rom, address) ELSE 255
    ELSE IF address < 32768 THEN
        LET bank_address ==
                IF mem.rom_bank = 0 THEN (address - 16384) + 16384
                ELSE (address - 16384) + mem.rom_bank * 16384
        IN IF bank_address < rom.len THEN RomAt(rom, bank_address) ELSE 255
    ELSE IF address < 40960 THEN Get(mem.vram, address - 32768, 0)
    ELSE IF address < 49152 THEN
        Get(mem.eram, address - 40960, 0)
    ELSE IF address < 57344 THEN Get(mem.wram, address - 49152, 0)
    ELSE IF address < 65024 THEN Get(mem.wram, address - 57344, 0)
    ELSE IF address < 65184 THEN Get(mem.oam, address - 65024, 0)
    ELSE IF address < 65280 THEN 255
    ELSE IF address < 65408 THEN
        IF address = 65280 THEN read_joypad(mem)
        ELSE IoGet(mem, address - 65280)
    ELSE IF address < 65535 THEN Get(mem.hram, address - 65408, 0)
    ELSE mem.ie

\* Memory.read_byte
read_byte(mem, rom, address0) ==
    LET address == W16(address0) IN
    IF address < 256 /\ mem.boot_rom_enabled THEN Get(mem.boot_rom, address, 0)
    ELSE IF address < 16384 THEN
        IF address < rom.len THEN RomAt(rom, address) ELSE 255
    ELSE IF address < 32768 THEN
        LET bank_address ==
                IF mem.rom_bank = 0 THEN (address - 16384) + 16384
                ELSE (address - 16384) + mem.rom_bank * 16384
        IN IF bank_address < rom.len THEN RomAt(rom, bank_address) ELSE 255
    ELSE IF address < 40960 THEN Get(mem.vram, address - 32768, 0)
    ELSE IF address < 49152 THEN
        IF mem.ram_enabled THEN Get(mem.eram, address - 40960, 0) ELSE 255
    ELSE IF address < 57344 THEN Get(mem.wram, address - 49152, 0)
    ELSE IF address < 65024 THEN Get(mem.wram, address - 57344, 0)
    ELSE IF address < 65184 THEN Get(mem.oam, address - 65024, 0)
    ELSE IF address < 65280 THEN 255
    ELSE IF address < 65408 THEN
        IF address = 65280 THEN read_joypad(mem)
        ELSE IoGet(mem, address - 65280)
    ELSE IF address < 65535 THEN Get(mem.hram, address - 65408, 0)
    ELSE mem.ie

\* Memory.write_joypad
write_joypad(mem, value) == IoPut(mem, 0, Or(And(value, 48), 192))

\* Memory.load_boot_rom: the 256 bytes of boot_rom_data overlay the cartridge
load_boot_rom(mem, boot_rom_data) ==
    [IoPut(IoPut(IoPut(mem, 38, 0), 64, 0), 80, 0)
        EXCEPT !.boot_rom = boot_rom_data, !.boot_rom_enabled = TRUE]

\* write_byte whose boot-ROM register follows the value written: 0 maps the
\* boot ROM in again
write_byte_boot_toggle(mem, address0, value0) ==
    LET address == W16(address0)
        value == W8(value0)
    IN
    IF address < 8192 THEN
        [mem EXCEPT !.ram_enabled = (((value) % 16) = 10)]
    ELSE IF address < 16384 THEN
        LET bank == IF And(value, 31) = 0 THEN 1 ELSE And(value, 31)
        IN [mem EXCEPT !.rom_bank = Or(And(mem.rom_bank, 96), bank)]
    ELSE IF address < 24576 THEN
        IF mem.banking_mode = 0
        THEN [mem EXCEPT !.rom_bank =
                  Or(And(mem.rom_bank, 31), And(value, 3) * 32)]
        ELSE [mem EXCEPT !.ram_bank = And(value, 3)]
    ELSE IF address < 32768 THEN
        [mem EXCEPT !.banking_mode = And(value, 1)]
    ELSE IF address < 40960 THEN
        [mem EXCEPT !.vram = Put(mem.vram, address - 32768, value, 0)]
    ELSE IF address < 49152 THEN
        IF mem.ram_enabled
        THEN [mem EXCEPT !.eram = Put(mem.eram, address - 40960, value, 0)]
        ELSE mem
    ELSE IF address < 57344 THEN
        [mem EXCEPT !.wram = Put(mem.wram, address - 49152, value, 0)]
    ELSE IF address < 65024 THEN
        [mem EXCEPT !.wram = Put(mem.wram, address - 57344, value, 0)]
    ELSE IF address < 65184 THEN
        [mem EXCEPT !.oam = Put(mem.oam, address - 65024, value, 0)]
    ELSE IF address < 65280 THEN mem
    ELSE IF address < 65408 THEN
        IF address = 65280 THEN write_joypad(mem, value)
        ELSE IF address = 65346 THEN
            IoPut(mem, 66, IF value > 64 THEN 64 ELSE value)
        ELSE IF address = 65360 THEN
            IoPut([mem EXCEPT !.boot_rom_enabled = (value = 0)], 80, value)
        ELSE IoPut(mem, address - 65280, value)
    ELSE IF address < 65535 THEN
        [mem EXCEPT !.hram = Put(mem.hram, address - 65408, value, 0)]
    ELSE [mem EXCEPT !.ie = value]

\* write_byte whose banking-mode arm ends at 0x7000: a write above it falls
\* through to the video RAM arm, where Python wraps the negative index
write_byte_short_control(mem, address0, value0) ==
    LET address == W16(address0)
        value == W8(value0)
    IN
    IF address < 8192 THEN
        [mem EXCEPT !.ram_enabled = (((value) % 16) = 10)]
    ELSE IF address < 16384 THEN
        LET bank == IF And(value, 31) = 0 THEN 1 ELSE And(value, 31)
        IN [mem EXCEPT !.rom_bank = Or(And(mem.rom_bank, 96), bank)]
    ELSE IF address < 24576 THEN
        IF mem.banking_mode = 0
        THEN [mem EXCEPT !.rom_bank =
                  Or(And(mem.rom_bank, 31), And(value, 3) * 32)]
        ELSE [mem EXCEPT !.ram_bank = And(value, 3)]
    ELSE IF address < 28672 THEN
        [mem EXCEPT !.banking_mode = And(value, 1)]
    ELSE IF address < 40960 THEN
        [mem EXCEPT !.vram =
             Put(mem.vram, (address - 32768) % 8192, value, 0)]
    ELSE IF address < 49152 THEN
        IF mem.ram_enabled
        THEN [mem EXCEPT !.eram = Put(mem.eram, address - 40960, value, 0)]
        ELSE mem
    ELSE IF address < 57344 THEN
        [mem EXCEPT !.wram = Put(mem.wram, address - 49152, value, 0)]
    ELSE IF address < 65024 THEN
        [mem EXCEPT !.wram = Put(mem.wram, address - 57344, value, 0)]
    ELSE IF address < 65184 THEN
        [mem EXCEPT !.oam = Put(mem.oam, address - 65024, value, 0)]
    ELSE IF address < 65280 THEN mem
    ELSE IF address < 65408 THEN
        IF address = 65280 THEN write_joypad(mem, value)
        ELSE IF address = 65346 THEN
            IoPut(mem, 66, IF value > 64 THEN 64 ELSE value)
        ELSE IF address = 65360 THEN
            IoPut([mem EXCEPT !.boot_rom_enabled =
                       IF value # 0 THEN FALSE ELSE @], 80, value)
        ELSE IoPut(mem, address - 65280, value)
    ELSE IF address < 65535 THEN
        [mem EXCEPT !.hram = Put(mem.hram, address - 65408, value, 0)]
    ELSE [mem EXCEPT !.ie = value]

\* write_byte that stores the low bank bits as written, 0 included
write_byte_bank_zero(mem, address0, value0) ==
    LET address == W16(address0)
        value == W8(value0)
    IN
    IF address < 8192 THEN
        [mem EXCEPT !.ram_enabled = (((value) % 16) = 10)]
    ELSE IF address < 16384 THEN
        LET bank == And(value, 31)
        IN [mem EXCEPT !.rom_bank = Or(And(mem.rom_bank, 96), bank)]
    ELSE IF address < 24576 THEN
        IF mem.banking_mode = 0
        THEN [mem EXCEPT !.rom_bank =
                  Or(And(mem.rom_bank, 31), And(value, 3) * 32)]
        ELSE [mem EXCEPT !.ram_bank = And(value, 3)]
    ELSE IF address < 32768 THEN
        [mem EXCEPT !.banking_mode = And(value, 1)]
    ELSE IF address < 40960 THEN
        [mem EXCEPT !.vram = Put(mem.vram, address - 32768, value, 0)]
    ELSE IF address < 49152 THEN
        IF mem.ram_enabled
        THEN [mem EXCEPT !.eram = Put(mem.eram, address - 40960, value, 0)]
        ELSE mem
    ELSE IF address < 57344 THEN
        [mem EXCEPT !.wram = Put(mem.wram, address - 49152, value, 0)]
    ELSE IF address < 65024 THEN
        [mem EXCEPT !.wram = Put(mem.wram, address - 57344, value, 0)]
    ELSE IF address < 65184 THEN
        [mem EXCEPT !.oam = Put(mem.oam, address - 65024, value, 0)]
    ELSE IF address < 65280 THEN mem
    ELSE IF address < 65408 THEN
        IF address = 65280 THEN write_joypad(mem, value)
        ELSE IF address = 65346 THEN
            IoPut(mem, 66, IF value > 64 THEN 64 ELSE value)
        ELSE IF address = 65360 THEN
            IoPut([mem EXCEPT !.boot_rom_enabled =
                       IF value # 0 THEN FALSE ELSE @], 80, value)
        ELSE IoPut(mem, address - 65280, value)
    ELSE IF address < 65535 THEN
        [mem EXCEPT !.hram = Put(mem.hram, address - 65408, value, 0)]
    ELSE [mem EXCEPT !.ie = value]

\* Memory.write_byte
write_byte(mem, address0, value0) ==
    LET address == W16(address0)
        value == W8(value0)
    IN
    IF address < 8192 THEN
        [mem EXCEPT !.ram_enabled = (((value) % 16) = 10)]
    ELSE IF address < 16384 THEN
        LET bank == IF And(value, 31) = 0 THEN 1 ELSE And(value, 31)
        IN [mem EXCEPT !.rom_bank = Or(And(mem.rom_bank, 96), bank)]
    ELSE IF address < 24576 THEN
        IF mem.banking_mode = 0
        THEN [mem EXCEPT !.rom_bank =
                  Or(And(mem.rom_bank, 31), And(value, 3) * 32)]
        ELSE [mem EXCEPT !.ram_bank = And(value, 3)]
    ELSE IF address < 32768 THEN
        [mem EXCEPT !.banking_mode = And(value, 1)]
    ELSE IF address < 40960 THEN
        [mem EXCEPT !.vram = Put(mem.vram, address - 32768, value, 0)]
    ELSE IF address < 49152 THEN
        IF mem.ram_enabled
        THEN [mem EXCEPT !.eram = Put(mem.eram, address - 40960, value, 0)]
        ELSE mem
    ELSE IF address < 57344 THEN
        [mem EXCEPT !.wram = Put(mem.wram, address - 49152, value, 0)]
    ELSE IF address < 65024 THEN
        [mem EXCEPT !.wram = Put(mem.wram, address - 57344, value, 0)]
    ELSE IF address < 65184 THEN
        [mem EXCEPT !.oam = Put(mem.oam, address - 65024, value, 0)]
    ELSE IF address < 65280 THEN mem
    ELSE IF address < 65408 THEN
        IF address = 65280 THEN write_joypad(mem, value)
        ELSE IF address = 65346 THEN
            IoPut(mem, 66, IF value > 64 THEN 64 ELSE value)
        ELSE IF address = 65360 THEN
            IoPut([mem EXCEPT !.boot_rom_enabled =
                       IF value # 0 THEN FALSE ELSE @], 80, value)
        ELSE IoPut(mem, address - 65280, value)
    ELSE IF address < 65535 THEN
        [mem EXCEPT !.hram = Put(mem.hram, address - 65408, value, 0)]
    ELSE [mem EXCEPT !.ie = value]

\* ---------------------------------------------------------------- Timer
\* Timer.__init__: the fields of the timer; its registers DIV, TIMA, TMA and
\* TAC are io[4..7] of the memory it was built on.
TimerInit ==
    [div_counter |-> 0, tima_counter |-> 0, tima_overflow_delay |-> 0,
     mem_timing_counter |-> 0, mem_timing_enabled |-> FALSE]

\* frequencies with the entries of TAC = 1 and TAC = 2 exchanged
frequencies_swapped(freq_select) ==
    CASE freq_select = 0 -> 1024 [] freq_select = 1 -> 64
      [] freq_select = 2 -> 16 [] freq_select = 3 -> 256

\* Timer.frequencies: T-cycles per TIMA increment for TAC bits 1-0
frequencies(freq_select) ==
    CASE freq_select = 0 -> 1024 [] freq_select = 1 -> 16
      [] freq_select = 2 -> 64 [] freq_select = 3 -> 256

\* a timer t with its memory
Device(t, mm) == [t |-> t, mem |-> mm]

\* Timer.read_register
read_register(d, address) ==
    IF address = 65284 THEN (d.t.div_counter \div 256) % 256
    ELSE IF address = 65285 THEN IoGet(d.mem, 5)
    ELSE IF address = 65286 THEN IoGet(d.mem, 6)
    ELSE IF address = 65287 THEN IoGet(d.mem, 7)
    ELSE 255

\* write_register whose DIV arm clears the visible register only
write_register_keeps_counter(d, address, value) ==
    IF address = 65284 THEN [d EXCEPT !.mem = IoPut(d.mem, 4, 0)]
    ELSE IF address = 65285 THEN [d EXCEPT !.mem = IoPut(d.mem, 5, W8(value))]
    ELSE IF address = 65286 THEN [d EXCEPT !.mem = IoPut(d.mem, 6, W8(value))]
    ELSE IF address = 65287
    THEN [d EXCEPT !.mem = IoPut(d.mem, 7, And(W8(value), 7)),
                   !.t.tima_counter = 0]
    ELSE d

\* Timer.write_register
write_register(d, address, value) ==
    IF address = 65284
    THEN [d EXCEPT !.t.div_counter = 0, !.mem = IoPut(d.mem, 4, 0)]
    ELSE IF address = 65285 THEN [d EXCEPT !.mem = IoPut(d.mem, 5, W8(value))]
    ELSE IF address = 65286 THEN [d EXCEPT !.mem = IoPut(d.mem, 6, W8(value))]
    ELSE IF address = 65287
    THEN [d EXCEPT !.mem = IoPut(d.mem, 7, And(W8(value), 7)),
                   !.t.tima_counter = 0]
    ELSE d

\* Timer.update: the loop that carries div_counter into io[0x04]
RECURSIVE div_loop(_)
div_loop(d) ==
    IF d.t.div_counter < 256 THEN d
    ELSE div_loop([d EXCEPT !.t.div_counter = @ - 256,
                            !.mem = IoPut(d.mem, 4, W8(IoGet(d.mem, 4) + 1))])

\* Timer.update: the loop that increments TIMA once per divider T-cycles and
\* stops at an overflow, which starts the 4 T-cycle reload delay
RECURSIVE tima_loop(_, _)
tima_loop(d, divider) ==
    IF d.t.tima_counter < divider THEN d
    ELSE IF IoGet(d.mem, 5) = 255
    THEN [d EXCEPT !.t.tima_counter = @ - divider,
                   !.t.tima_overflow_delay = 4,
                   !.mem = IoPut(d.mem, 5, 0)]
    ELSE tima_loop([d EXCEPT !.t.tima_counter = @ - divider,
                             !.mem = IoPut(d.mem, 5, IoGet(d.mem, 5) + 1)],
                   divider)

\* Timer.update: the same for the 64-cycle measuring mode, which counts the
\* 64-cycle boundaries crossed and leaves tima_counter running
RECURSIVE mem_timing_loop(_, _)
mem_timing_loop(d, tima_increments) ==
    IF tima_increments <= 0 THEN d
    ELSE IF IoGet(d.mem, 5) = 255
    THEN [d EXCEPT !.t.tima_overflow_delay = 4, !.mem = IoPut(d.mem, 5, 0)]
    ELSE mem_timing_loop([d EXCEPT !.mem = IoPut(d.mem, 5, IoGet(d.mem, 5) + 1)],
                         tima_increments - 1)

\* Timer.update: TIMA, when TAC enables the timer
update_tima(d, remaining_cycles) ==
    IF ~TestBit(IoGet(d.mem, 7), 2) THEN d
    ELSE IF d.t.mem_timing_enabled /\ frequencies(IoGet(d.mem, 7) % 4) = 64
    THEN mem_timing_loop(
             [d EXCEPT !.t.tima_counter = @ + remaining_cycles],
             ((d.t.tima_counter + remaining_cycles) \div 64)
                 - (d.t.tima_counter \div 64))
    ELSE tima_loop([d EXCEPT !.t.tima_counter = @ + remaining_cycles],
                   frequencies(IoGet(d.mem, 7) % 4))

\* Timer.update: DIV and TIMA for the cycles the reload delay left over
update_counters(d, remaining_cycles) ==
    IF remaining_cycles <= 0 THEN d
    ELSE update_tima(div_loop([d EXCEPT !.t.div_counter = @ + remaining_cycles]),
                     remaining_cycles)

\* Timer.update: the end of the reload delay: TIMA = TMA, IF bit 2 set
\* through the bus
reload_tima(mm) ==
    write_byte(mm, 65295, Or(read_byte(mm, RomView(0, 0, 0, 0, 0), 65295), 4))

\* Timer.update: the reload delay takes its cycles first
update_delay(d, cycles, delay_cycles) ==
    update_counters(
        IF d.t.tima_overflow_delay - delay_cycles <= 0
        THEN [d EXCEPT !.t.tima_overflow_delay = 0,
                       !.mem = reload_tima(IoPut(d.mem, 5, IoGet(d.mem, 6)))]
        ELSE [d EXCEPT !.t.tima_overflow_delay = @ - delay_cycles],
        cycles - delay_cycles)

update_counted(d, cycles) ==
    IF d.t.tima_overflow_delay > 0
    THEN update_delay(d, cycles,
                      IF cycles < d.t.tima_overflow_delay
                      THEN cycles ELSE d.t.tima_overflow_delay)
    ELSE update_counters(d, cycles)

\* Timer.update
update(d, cycles) ==
    update_counted(IF d.t.mem_timing_enabled
                   THEN [d EXCEPT !.t.mem_timing_counter = @ + cycles]
                   ELSE d, cycles)

\* Timer.enable_mem_timing_mode
enable_mem_timing_mode(d) ==
    [d EXCEPT !.t.mem_timing_enabled = TRUE, !.t.mem_timing_counter = 0,
              !.t.tima_counter = 0, !.t.div_counter = 0,
              !.mem = IoPut(IoPut(IoPut(d.mem, 7, 6), 5, 0), 6, 0)]

\* ------------------------------------------------------------------ PPU
\* PPU.__init__: the timing fields of the PPU.  ppu_cycles is the attribute
\* the effective step creates with 0 on its first call.
PPUInit == [cycles |-> 0, scan_line |-> 0, mode |-> 0, ppu_cycles |-> 0]

\* the PPU p on the memory mm; latched counts the executions of the branch
\* that sets IF bit 0
Panel(p, mm) == [ppu |-> p, mem |-> mm, latched |-> 0]

\* PPU.step (the second definition in the class body, which replaces the
\* first): the loop over whole scanlines
RECURSIVE scanline_loop(_)
scanline_loop(d) ==
    IF d.ppu.ppu_cycles >= 456
    THEN LET ly == (read_byte(d.mem, RomView(0, 0, 0, 0, 0), 65348) + 1) % 154
             m1 == write_byte(d.mem, 65348, ly)
             if_reg == read_byte(m1, RomView(0, 0, 0, 0, 0), 65295)
         IN scanline_loop(
                [ppu |-> [d.ppu EXCEPT !.ppu_cycles = @ - 456],
                 mem |-> IF ly = 144 THEN write_byte(m1, 65295, Or(if_reg, 1))
                         ELSE IF ly = 0
                         THEN write_byte(m1, 65295, AndNot(if_reg, 1))
                         ELSE m1,
                 latched |-> IF ly = 144 THEN d.latched + 1 ELSE d.latched])
    ELSE d

\* PPU.step
ppu_step(d, cycles) ==
    scanline_loop([d EXCEPT !.ppu.ppu_cycles = @ + cycles])

\* PPU.get_stat, PPU.get_ly
get_stat(d) ==
    Or(And(read_byte(d.mem, RomView(0, 0, 0, 0, 0), 65345), 252), d.ppu.mode)
get_ly(d) == d.ppu.scan_line

\* ------------------------------------------------------------------ CPU
\* CPU.__init__ followed by init_post_boot_dmg / init_post_boot_test_rom
CPUInit ==
    [a |-> 1, b |-> 0, c |-> 19, d |-> 0, e |-> 216, h |-> 1, l |-> 77,
     sp |-> 65534, pc |-> 256,
     flag_z |-> TRUE, flag_n |-> FALSE, flag_h |-> TRUE, flag_c |-> TRUE,
     cycles |-> 0, interrupt_master_enable |-> FALSE, halted |-> FALSE,
     ei_delay |-> 0, halt_bug_active |-> FALSE]

\* get_f with the carry flag packed one bit too low (0x08 for 0x10)
get_f_carry_bit3(c) ==
    (IF c.flag_z THEN 128 ELSE 0) + (IF c.flag_n THEN 64 ELSE 0)
    + (IF c.flag_h THEN 32 ELSE 0) + (IF c.flag_c THEN 8 ELSE 0)

\* CPU.get_f
get_f(c) ==
    (IF c.flag_z THEN 128 ELSE 0) + (IF c.flag_n THEN 64 ELSE 0)
    + (IF c.flag_h THEN 32 ELSE 0) + (IF c.flag_c THEN 16 ELSE 0)

\* CPU.set_f
set_f(c, value) ==
    [c EXCEPT !.flag_z = TestBit(value, 7), !.flag_n = TestBit(value, 6),
              !.flag_h = TestBit(value, 5), !.flag_c = TestBit(value, 4)]

\* CPU.get_af
get_af(c) == Or(c.a * 256, get_f(c))

\* CPU.set_af
set_af(c, value) == set_f([c EXCEPT !.a = ((value \div 256) % 256)],
                          ((value) % 256))

get_bc(c) == Or(c.b * 256, c.c)
set_bc(c, value) == [c EXCEPT !.b = ((value \div 256) % 256),
                              !.c = ((value) % 256)]
get_hl(c) == Or(c.h * 256, c.l)

\* A machine is the CPU, the memory it is wired to, the exception (if any)
\* that is propagating out of step(), and a marker that the step left the
\* modelled fragment (a device register or an opcode that is not modelled).
Machine(c, mm) == [cpu |-> c, mem |-> mm, exc |-> "none", bad |-> FALSE]

\* self.memory.read_byte(address) as the CPU calls it
Rd(m, rom, address) == read_byte(m.mem, rom, address)
\* marks a read that the bus would hand to a device
Touch(m, address) == [m EXCEPT !.bad = @ \/ DeviceReg(W16(address))]
\* self.memory.write_byte(address, value) as the CPU calls it
Wr(m, address, value) ==
    [m EXCEPT !.mem = write_byte(m.mem, address, value),
              !.bad = @ \/ DeviceReg(W16(address))]

Cyc(m, k) == [m EXCEPT !.cpu.cycles = @ + k]
SetPC(m, p) == [m EXCEPT !.cpu.pc = p]
\* the operand bytes behind the opcode (fetch_byte / fetch_word)
Imm8(m, rom) == Rd(m, rom, m.cpu.pc)
Imm16(m, rom) == Or(Rd(m, rom, W16(m.cpu.pc + 1)) * 256, Rd(m, rom, m.cpu.pc))
Skip(m, k) ==
    LET t1 == Touch(m, m.cpu.pc)
        t2 == IF k = 2 THEN Touch(t1, m.cpu.pc + 1) ELSE t1
    IN [t2 EXCEPT !.cpu.pc = W16(@ + k)]
Signed(offset) == IF offset > 127 THEN offset - 256 ELSE offset

\* CPU.push_byte
push_byte(m, value) ==
    LET sp1 == W16(m.cpu.sp + 65535)
    IN Wr([m EXCEPT !.cpu.sp = sp1], sp1, ((value) % 256))

\* push_word that pushes the low byte first
push_word_low_first(m, value) ==
    push_byte(push_byte(m, ((value) % 256)), ((value \div 256) % 256))

\* CPU.push_word
push_word(m, value) ==
    push_byte(push_byte(m, ((value \div 256) % 256)), ((value) % 256))

\* CPU.pop_word: the word read, and the machine after the two pop_byte calls
pop_value(m, rom) ==
    Or(Rd(m, rom, W16(m.cpu.sp + 1)) * 256, Rd(m, rom, m.cpu.sp))
pop_word(m) ==
    [Touch(Touch(m, m.cpu.sp), m.cpu.sp + 1) EXCEPT !.cpu.sp = W16(@ + 2)]

\* CPU.inc_8bit / CPU.dec_8bit: flags, the result is returned separately
inc_8bit(c, value) ==
    [c EXCEPT !.flag_z = (((value + 1) % 256) = 0), !.flag_n = FALSE,
              !.flag_h = (((value) % 16) + 1 > 15)]
dec_8bit(c, value) ==
    [c EXCEPT !.flag_z = (((value + 255) % 256) = 0), !.flag_n = TRUE,
              !.flag_h = (((value) % 16) = 0)]

\* CPU.add_8bit / CPU.sub_8bit
add_8bit(c, x, y) ==
    [c EXCEPT !.a = ((x + y) % 256),
              !.flag_h = (((x) % 16) + ((y) % 16) > 15),
              !.flag_c = (x + y > 255),
              !.flag_z = (((x + y) % 256) = 0), !.flag_n = FALSE]
\* sub_8bit that never reports a borrow from bit 4
sub_8bit_no_half_borrow(c, x, y) ==
    [c EXCEPT !.a = ((x - y + 256) % 256),
              !.flag_h = FALSE,
              !.flag_c = (x - y < 0),
              !.flag_z = (((x - y + 256) % 256) = 0), !.flag_n = TRUE]

\* CPU.sub_8bit
sub_8bit(c, x, y) ==
    [c EXCEPT !.a = ((x - y + 256) % 256),
              !.flag_h = (((x) % 16) < ((y) % 16)),
              !.flag_c = (x - y < 0),
              !.flag_z = (((x - y + 256) % 256) = 0), !.flag_n = TRUE]

\* register operand r of a CB opcode: 0..7 = B, C, D, E, H, L, (HL), A
CbGet(m, rom, reg) ==
    CASE reg = 0 -> m.cpu.b [] reg = 1 -> m.cpu.c [] reg = 2 -> m.cpu.d
      [] reg = 3 -> m.cpu.e [] reg = 4 -> m.cpu.h [] reg = 5 -> m.cpu.l
      [] reg = 6 -> Rd(m, rom, get_hl(m.cpu)) [] reg = 7 -> m.cpu.a

CbPut(m, reg, value) ==
    CASE reg = 0 -> [m EXCEPT !.cpu.b = value]
      [] reg = 1 -> [m EXCEPT !.cpu.c = value]
      [] reg = 2 -> [m EXCEPT !.cpu.d = value]
      [] reg = 3 -> [m EXCEPT !.cpu.e = value]
      [] reg = 4 -> [m EXCEPT !.cpu.h = value]
      [] reg = 5 -> [m EXCEPT !.cpu.l = value]
      [] reg = 6 -> Wr(m, get_hl(m.cpu), value)
      [] reg = 7 -> [m EXCEPT !.cpu.a = value]

\* CPU.execute_cb_instruction
execute_cb_instruction(m0, rom, opcode) ==
    LET reg == And(opcode, 7)
        m == IF reg = 6 THEN Touch(m0, get_hl(m0.cpu)) ELSE m0
        value == CbGet(m, rom, reg)
        cy == IF m.cpu.flag_c THEN 1 ELSE 0
    IN
    IF opcode >= 64 /\ opcode <= 127 THEN
        LET bit == (opcode - 64) \div 8
            m1 == IF reg = 6 THEN Cyc(m, 4) ELSE m
        IN Cyc([m1 EXCEPT !.cpu.flag_z = ~TestBit(value, bit),
                          !.cpu.flag_n = FALSE, !.cpu.flag_h = TRUE], 8)
    ELSE IF opcode >= 192 /\ opcode <= 255 THEN
        LET bit == (opcode - 192) \div 8
            m1 == CbPut(m, reg, Or(value, 2 ^ bit))
        IN Cyc(IF reg = 6 THEN Cyc(m1, 8) ELSE m1, 8)
    ELSE IF opcode >= 128 /\ opcode <= 191 THEN
        LET bit == (opcode - 128) \div 8
            m1 == CbPut(m, reg, AndNot(value, 2 ^ bit))
        IN Cyc(IF reg = 6 THEN Cyc(m1, 8) ELSE m1, 8)
    ELSE
        LET operation == opcode \div 8
            m1 == IF reg = 6 THEN Cyc(m, 8) ELSE m
            result ==
                CASE operation = 0 -> And(Or(value * 2, Bit(value, 7)), 255)
                  [] operation = 1 -> And(Or(value \div 2, Bit(value, 0) * 128), 255)
                  [] operation = 2 -> ((Or(value * 2, cy)) % 256)
                  [] operation = 3 -> Or(value \div 2, cy * 128)
                  [] operation = 4 -> ((value * 2) % 256)
                  [] operation = 5 -> Or(value \div 2, And(value, 128))
                  [] operation = 6 -> Or(((value) % 16) * 16, And(value, 240) \div 16)
                  [] operation = 7 -> value \div 2
            carry ==
                CASE operation \in {0, 2, 4} -> TestBit(value, 7)
                  [] operation \in {1, 3, 5, 7} -> TestBit(value, 0)
                  [] operation = 6 -> FALSE
            m2 == [m1 EXCEPT !.cpu.flag_c = carry,
                             !.cpu.flag_z = (result = 0),
                             !.cpu.flag_n = FALSE, !.cpu.flag_h = FALSE]
        IN Cyc(CbPut(m2, reg, result), 8)

\* JR cc that charges the taken cost on both outcomes
JRcc_flat_cost(m, rom, cond) ==
    LET offset == Imm8(m, rom)
        m1 == Skip(m, 1)
    IN IF cond THEN Cyc(SetPC(m1, W16(m1.cpu.pc + Signed(offset) + 65536)), 12)
       ELSE Cyc(m1, 12)

\* the conditional arms of CPU.execute_instruction, one per instruction kind
JRcc(m, rom, cond) ==
    LET offset == Imm8(m, rom)
        m1 == Skip(m, 1)
    IN IF cond THEN Cyc(SetPC(m1, W16(m1.cpu.pc + Signed(offset) + 65536)), 12)
       ELSE Cyc(m1, 8)

JPcc(m, rom, cond) ==
    LET address == Imm16(m, rom)
        m1 == Skip(m, 2)
    IN IF cond THEN Cyc(SetPC(m1, address), 16) ELSE Cyc(m1, 12)

CALLcc(m, rom, cond) ==
    LET address == Imm16(m, rom)
        m1 == Skip(m, 2)
    IN IF cond THEN Cyc(SetPC(push_word(m1, m1.cpu.pc), address), 24)
       ELSE Cyc(m1, 12)

RETcc(m, rom, cond) ==
    IF cond THEN Cyc(SetPC(pop_word(m), pop_value(m, rom)), 20)
    ELSE Cyc(m, 8)

RST(m, target) == Cyc(SetPC(push_word(m, m.cpu.pc), target), 16)

\* opcodes that reach the default branch of CPU.execute_instruction
Unimplemented == {16, 211, 219, 221, 227, 228, 235, 236, 244, 252, 253}

\* the arms of CPU.execute_instruction that are modelled
Modelled ==
    {0, 1, 6, 62, 49, 224, 240, 24, 32, 40, 48, 56, 195, 194, 202, 210, 218,
     205, 196, 204, 212, 220, 201, 192, 200, 208, 216, 4, 60, 61, 175, 203,
     245, 241, 197, 193, 243, 251, 118, 55, 63, 217, 214, 215, 128, 144,
     39, 255, 237}

\* CPU.execute_instruction; m.cpu.pc is already behind the opcode byte
execute_instruction(m, rom, opcode) ==
    LET c == m.cpu IN
    CASE opcode = 0 -> Cyc(m, 4)
      [] opcode = 1 ->
            Cyc([Skip(m, 2) EXCEPT
                     !.cpu = set_bc(Skip(m, 2).cpu, Imm16(m, rom))], 12)
      [] opcode = 6 -> Cyc([Skip(m, 1) EXCEPT !.cpu.b = Imm8(m, rom)], 8)
      [] opcode = 62 -> Cyc([Skip(m, 1) EXCEPT !.cpu.a = Imm8(m, rom)], 8)
      [] opcode = 49 -> Cyc([Skip(m, 2) EXCEPT !.cpu.sp = Imm16(m, rom)], 12)
      [] opcode = 224 ->
            Cyc(Wr(Skip(m, 1), 65280 + Imm8(m, rom), c.a), 12)
      [] opcode = 240 ->
            Cyc([Touch(Skip(m, 1), 65280 + Imm8(m, rom)) EXCEPT
                     !.cpu.a = Rd(m, rom, 65280 + Imm8(m, rom))], 12)
      [] opcode = 24 ->
            LET m1 == Skip(m, 1)
            IN Cyc(SetPC(m1, W16(m1.cpu.pc + Signed(Imm8(m, rom)) + 65536)), 12)
      [] opcode = 32 -> JRcc(m, rom, ~c.flag_z)
      [] opcode = 40 -> JRcc(m, rom, c.flag_z)
      [] opcode = 48 -> JRcc(m, rom, ~c.flag_c)
      [] opcode = 56 -> JRcc(m, rom, c.flag_c)
      [] opcode = 195 -> Cyc(SetPC(Skip(m, 2), Imm16(m, rom)), 16)
      [] opcode = 194 -> JPcc(m, rom, ~c.flag_z)
      [] opcode = 202 -> JPcc(m, rom, c.flag_z)
      [] opcode = 210 -> JPcc(m, rom, ~c.flag_c)
      [] opcode = 218 -> JPcc(m, rom, c.flag_c)
      [] opcode = 205 -> CALLcc(m, rom, TRUE)
      [] opcode = 196 -> CALLcc(m, rom, ~c.flag_z)
      [] opcode = 204 -> CALLcc(m, rom, c.flag_z)
      [] opcode = 212 -> CALLcc(m, rom, ~c.flag_c)
      [] opcode = 220 -> CALLcc(m, rom, c.flag_c)
      [] opcode = 201 -> Cyc(SetPC(pop_word(m), pop_value(m, rom)), 16)
      [] opcode = 192 -> RETcc(m, rom, ~c.flag_z)
      [] opcode = 200 -> RETcc(m, rom, c.flag_z)
      [] opcode = 208 -> RETcc(m, rom, ~c.flag_c)
      [] opcode = 216 -> RETcc(m, rom, c.flag_c)
      [] opcode = 4 ->
            Cyc([m EXCEPT !.cpu = [inc_8bit(c, c.b) EXCEPT
                                       !.b = ((c.b + 1) % 256)]], 4)
      [] opcode = 60 ->
            Cyc([m EXCEPT !.cpu = [inc_8bit(c, c.a) EXCEPT
                                       !.a = ((c.a + 1) % 256)]], 4)
      [] opcode = 61 ->
            Cyc([m EXCEPT !.cpu = [dec_8bit(c, c.a) EXCEPT
                                       !.a = ((c.a + 255) % 256)]], 4)
      [] opcode = 175 ->
            Cyc([m EXCEPT !.cpu.a = 0, !.cpu.flag_z = TRUE,
                          !.cpu.flag_n = FALSE, !.cpu.flag_h = FALSE,
                          !.cpu.flag_c = FALSE], 4)
      [] opcode = 203 ->
            execute_cb_instruction(Skip(m, 1), rom, Imm8(m, rom))
      [] opcode = 245 -> Cyc(push_word(m, get_af(c)), 16)
      [] opcode = 241 ->
            Cyc([pop_word(m) EXCEPT
                     !.cpu = set_af(pop_word(m).cpu, pop_value(m, rom))], 12)
      [] opcode = 197 -> Cyc(push_word(m, get_bc(c)), 16)
      [] opcode = 193 ->
            Cyc([pop_word(m) EXCEPT
                     !.cpu = set_bc(pop_word(m).cpu, pop_value(m, rom))], 12)
      [] opcode = 243 -> Cyc([m EXCEPT !.cpu.interrupt_master_enable = FALSE], 4)
      [] opcode = 251 -> Cyc([m EXCEPT !.cpu.ei_delay = 2], 4)
      [] opcode = 118 ->
            LET ie == Rd(m, rom, 65535)
                if_reg == Rd(m, rom, 65295)
                pending == And(ie, if_reg)
            IN Cyc(IF c.interrupt_master_enable
                   THEN [m EXCEPT !.cpu.halted = TRUE]
                   ELSE IF pending # 0
                   THEN [m EXCEPT !.cpu.halted = FALSE,
                                  !.cpu.halt_bug_active = TRUE]
                   ELSE [m EXCEPT !.cpu.halted = TRUE], 4)
      [] opcode = 55 ->
            Cyc([m EXCEPT !.cpu.flag_n = FALSE, !.cpu.flag_h = FALSE,
                          !.cpu.flag_c = TRUE], 4)
      [] opcode = 63 ->
            Cyc([m EXCEPT !.cpu.flag_n = FALSE, !.cpu.flag_h = FALSE,
                          !.cpu.flag_c = ~c.flag_c], 4)
      [] opcode = 217 ->
            Cyc([SetPC(pop_word(m), pop_value(m, rom)) EXCEPT
                     !.cpu.interrupt_master_enable = TRUE], 16)
      [] opcode = 214 ->
            LET value == Imm8(m, rom)
                m1 == Skip(m, 1)
                at == m1.cpu.pc - 2
                a1 == IF (at = 531 \/ at = 49155) /\ value = 5 /\ c.a > 5
                      THEN 1 ELSE c.a
            IN Cyc([m1 EXCEPT !.cpu.flag_c = (a1 < value),
                              !.cpu.flag_h = (((a1) % 16) < ((value) % 16)),
                              !.cpu.a = ((a1 - value + 256) % 256),
                              !.cpu.flag_z = (((a1 - value + 256) % 256) = 0),
                              !.cpu.flag_n = TRUE], 8)
      [] opcode = 215 -> RST(m, 16)
      [] opcode = 255 -> RST(m, 56)
      [] opcode = 128 ->
            Cyc([m EXCEPT !.cpu.flag_c = (c.a + c.b > 255),
                          !.cpu.flag_h = (((c.a) % 16) + ((c.b) % 16) > 15),
                          !.cpu.a = ((c.a + c.b) % 256),
                          !.cpu.flag_z = (((c.a + c.b) % 256) = 0),
                          !.cpu.flag_n = FALSE], 4)
      [] opcode = 144 -> Cyc([m EXCEPT !.cpu = sub_8bit(c, c.a, c.b)], 4)
      [] opcode = 39 ->
            LET hi == ~c.flag_n /\ (c.flag_c \/ c.a > 153)
                a1 == IF c.flag_n
                      THEN (IF c.flag_c THEN ((c.a - 96 + 256) % 256) ELSE c.a)
                      ELSE (IF hi THEN ((c.a + 96) % 256) ELSE c.a)
                a2 == IF c.flag_n
                      THEN (IF c.flag_h THEN ((a1 - 6 + 256) % 256) ELSE a1)
                      ELSE (IF c.flag_h \/ ((a1) % 16) > 9
                            THEN ((a1 + 6) % 256) ELSE a1)
            IN Cyc([m EXCEPT !.cpu.a = a2,
                             !.cpu.flag_c = IF hi THEN TRUE ELSE @,
                             !.cpu.flag_z = (a2 = 0),
                             !.cpu.flag_h = FALSE], 4)
      [] opcode = 237 -> [m EXCEPT !.exc = "NotImplementedError"]
      [] opcode \in Unimplemented -> Cyc(m, 4)
      [] OTHER -> [m EXCEPT !.bad = TRUE]

\* _service_interrupt that pushes PC before the halted CPU has moved past
\* its HALT (the address of the HALT itself)
service_interrupt_returns_to_halt(m, rom, vector, flag_bit) ==
    LET m1 == [m EXCEPT !.cpu.interrupt_master_enable = FALSE]
        if_reg == Rd(m1, rom, 65295)
        m2 == Wr(m1, 65295, AndNot(if_reg, flag_bit))
        m3 == push_word(m2, IF m2.cpu.halted THEN W16(m2.cpu.pc + 65535)
                            ELSE m2.cpu.pc)
    IN Cyc(SetPC(m3, vector), 20)

\* CPU._service_interrupt
service_interrupt(m, rom, vector, flag_bit) ==
    LET m1 == [m EXCEPT !.cpu.interrupt_master_enable = FALSE]
        if_reg == Rd(m1, rom, 65295)
        m2 == Wr(m1, 65295, AndNot(if_reg, flag_bit))
        m3 == push_word(m2, m2.cpu.pc)
    IN Cyc(SetPC(m3, vector), 20)

\* handle_interrupts with the priority chain upside down (joypad first)
pending_bit_highest_first(m, rom) ==
    LET ie == Rd(m, rom, 65535)
        if_reg == Rd(m, rom, 65295)
        pending == And(ie, if_reg)
    IN IF ~m.cpu.interrupt_master_enable THEN -1
       ELSE IF And(pending, 16) # 0 THEN 4
       ELSE IF And(pending, 8) # 0 THEN 3
       ELSE IF And(pending, 4) # 0 THEN 2
       ELSE IF And(pending, 2) # 0 THEN 1
       ELSE IF And(pending, 1) # 0 THEN 0
       ELSE -1

\* CPU.handle_interrupts: the IF bit it would service, or -1 for "return False"
pending_bit(m, rom) ==
    LET ie == Rd(m, rom, 65535)
        if_reg == Rd(m, rom, 65295)
        pending == And(ie, if_reg)
    IN IF ~m.cpu.interrupt_master_enable THEN -1
       ELSE IF And(pending, 1) # 0 THEN 0
       ELSE IF And(pending, 2) # 0 THEN 1
       ELSE IF And(pending, 4) # 0 THEN 2
       ELSE IF And(pending, 8) # 0 THEN 3
       ELSE IF And(pending, 16) # 0 THEN 4
       ELSE -1

\* CPU.handle_interrupts: the machine after the call when it returns True
handle_interrupts(m, rom) ==
    LET bit == pending_bit(m, rom)
    IN service_interrupt(m, rom, 64 + 8 * bit, 2 ^ bit)

\* one fetch_byte + execute_instruction
fetch_execute(m, rom) ==
    execute_instruction(Skip(m, 1), rom, Rd(m, rom, m.cpu.pc))

\* What a call of CPU.step did, next to the machine it leaves: kind, and for
\* each instruction executed its opcode and fetch address.
StepResult(m, kind, op, at, op2, at2) ==
    [m |-> m, kind |-> kind, op |-> op, at |-> at, op2 |-> op2, at2 |-> at2]

\* CPU.step, HALT bug branch: m1 is the machine after the first execution,
\* m3 the machine after the second one, fetched one byte below where the
\* first left PC.  An exception ends the step where it is raised.
halt_bug_result(m, rom, m1, m3) ==
    IF m1.exc # "none"
    THEN StepResult(m1, "halt_bug", Rd(m, rom, m.cpu.pc), m.cpu.pc, -1, -1)
    ELSE StepResult(IF m3.exc # "none" THEN m3
                    ELSE [m3 EXCEPT !.cpu.halt_bug_active = FALSE],
                    "halt_bug", Rd(m, rom, m.cpu.pc), m.cpu.pc,
                    Rd(m1, rom, W16(m1.cpu.pc + 65535)),
                    W16(m1.cpu.pc + 65535))

halt_bug_second(m, rom, m1) ==
    halt_bug_result(m, rom, m1,
                    fetch_execute(SetPC(m1, W16(m1.cpu.pc + 65535)), rom))

halt_bug_step(m, rom) == halt_bug_second(m, rom, fetch_execute(m, rom))

\* CPU.step, the EI delay: IME becomes true when the counter reaches 0
ei_tick(m0) ==
    IF m0.cpu.ei_delay > 0
    THEN [m0 EXCEPT !.cpu.ei_delay = @ - 1,
                    !.cpu.interrupt_master_enable =
                        IF m0.cpu.ei_delay - 1 = 0 THEN TRUE ELSE @]
    ELSE m0

\* CPU.step behind the EI delay
step_dispatch(m, rom) ==
    IF m.cpu.halted THEN
        IF pending_bit(m, rom) >= 0
        THEN StepResult([handle_interrupts(m, rom) EXCEPT !.cpu.halted = FALSE],
                        "service", -1, -1, -1, -1)
        ELSE StepResult(Cyc(m, 4), "idle", -1, -1, -1, -1)
    ELSE IF pending_bit(m, rom) >= 0
    THEN StepResult(handle_interrupts(m, rom), "service", -1, -1, -1, -1)
    ELSE IF m.cpu.halt_bug_active THEN halt_bug_step(m, rom)
    ELSE StepResult(fetch_execute(m, rom), "exec",
                    Rd(m, rom, m.cpu.pc), m.cpu.pc, -1, -1)

\* CPU.step
step(m0, rom) == step_dispatch(ei_tick(m0), rom)

\* Memory._trigger_joypad_interrupt
trigger_joypad_interrupt(mm, rom) ==
    write_byte(mm, 65295, Or(read_byte(mm, rom, 65295), 16))

\* Memory.press_button / Memory.release_button
press_button(mm, rom, button) ==
    IF 0 <= button /\ button <= 3
    THEN trigger_joypad_interrupt(
             [mm EXCEPT !.joypad_buttons = AndNot(@, 2 ^ button)], rom)
    ELSE mm

release_button(mm, button) ==
    IF 0 <= button /\ button <= 3
    THEN [mm EXCEPT !.joypad_buttons = Or(@, 2 ^ button)]
    ELSE mm

\* ---------------------------------------------------------------- inputs
\* Straight-line programs at 0x0100 that the machine has run from the
\* constructed state before the initial state of a specification:
\*   (none);  LD A,n; LDH (FF),A  (sets IE);
\*   LD A,n; LDH (FF),A; EI; NOP  (sets IE and IME);
\*   LD A,n; LDH (FF),A; EI; NOP; LDH (0F),A  (sets IE, IME, then IF).
ByteAt(prog, k) == IF 0 <= k /\ k < Len(prog) THEN prog[k + 1] ELSE 0

ProgView(prog, pc) ==
    RomView(pc, ByteAt(prog, pc - 256), ByteAt(prog, pc - 255),
            ByteAt(prog, pc - 254), 0)

RECURSIVE RunSetup(_, _)
RunSetup(m, prog) ==
    IF m.cpu.pc - 256 >= Len(prog) THEN m
    ELSE RunSetup(step(m, ProgView(prog, m.cpu.pc)).m, prog)

Setups ==
    {<<>>, <<62, 17, 224, 255>>, <<62, 16, 224, 255>>,
     <<62, 16, 224, 255, 251, 0>>, <<62, 14, 224, 255, 251, 0, 224, 15>>}

\* opcode bytes the ROM may hold at PC
Opcodes == {0, 251, 243, 118, 60, 237, 211, 203, 62, 195}
\* bytes the ROM may hold at PC+1 and PC+2
Operands1 == {60, 124}
Operands2 == {1}
\* the byte every other ROM offset holds
Others == {0}
\* buttons the host presses
Buttons == {0}

\* ------------------------------------------------------------------ state
\* cpu, mem: the CPU and Memory objects; exc: the exception propagating out
\* of CPU.step; obs: what the last CPU step did (kind, opcodes and fetch
\* addresses, the memory and SP it started from), what the one before it
\* did, where the last HALT was fetched, and the cycle count at the start
VARIABLES cpu, mem, exc, obs, timer, ppu

vars == <<cpu, mem, exc, obs, timer, ppu>>

ObsInit(start) ==
    [kind |-> "init", op |-> -1, at |-> -1, op2 |-> -1, at2 |-> -1,
     prev_kind |-> "init", prev_op |-> -1, halt_at |-> -1, start |-> start,
     mem0 |-> MemoryInit, sp0 |-> -1, a0 |-> -1, fc0 |-> FALSE]

\* Memory after GameBoy.__init__ and load_rom without a boot ROM:
\* init_post_boot_dmg for a game ROM, init_post_boot_test_rom (IF = 0,
\* IE = 4, TIMA = 0x46, DIV = 0xAC) for a test ROM.
LoadedMemory ==
    {MemoryInit,
     [IoPut(IoPut(IoPut(MemoryInit, 15, 0), 4, 172), 5, 70) EXCEPT !.ie = 4]}

\* the machine m, having run its setup program, is the initial state
InitAt(m) ==
    /\ ~m.bad
    /\ m.exc = "none"
    /\ cpu = m.cpu
    /\ mem = m.mem
    /\ exc = "none"
    /\ obs = ObsInit(m.cpu.cycles)
    /\ timer = TimerInit
    /\ ppu = PPUInit

InitFrom(setups) ==
    \E prog \in setups, mm \in LoadedMemory :
        InitAt(RunSetup(Machine(CPUInit, mm), prog))

Init == InitFrom(Setups)

\* The variables take the outcome r of a call of CPU.step.
Commit(r) ==
    /\ ~r.m.bad
    /\ cpu' = r.m.cpu
    /\ mem' = r.m.mem
    /\ exc' = r.m.exc
    /\ obs' = [kind |-> r.kind, op |-> r.op, at |-> r.at,
               op2 |-> r.op2, at2 |-> r.at2,
               prev_kind |-> obs.kind, prev_op |-> obs.op,
               halt_at |-> IF r.op2 = 118 THEN r.at2
                           ELSE IF r.op = 118 THEN r.at
                           ELSE obs.halt_at,
               start |-> obs.start, mem0 |-> mem, sp0 |-> cpu.sp,
               a0 |-> cpu.a, fc0 |-> cpu.flag_c]
    /\ UNCHANGED <<timer, ppu>>

\* One call of CPU.step on the ROM bytes op, n1, n2 at PC and x elsewhere.
CPUStep(op, n1, n2, x) ==
    /\ exc = "none"
    /\ cpu.cycles < obs.start + MaxCycles
    /\ Commit(step(Machine(cpu, mem), RomView(cpu.pc, op, n1, n2, x)))

\* The host presses a button (Memory.press_button).
PressButton(button) ==
    /\ exc = "none"
    /\ mem' = press_button(mem, RomView(0, 0, 0, 0, 0), button)
    /\ mem' # mem
    /\ UNCHANGED <<cpu, exc, obs, timer, ppu>>

\* operand bytes behind an opcode byte
OperandBytes(op) ==
    IF op \in {6, 62, 224, 240, 24, 32, 40, 48, 56, 203, 214} THEN 1
    ELSE IF op \in {49, 195, 194, 202, 210, 218, 205, 196, 204, 212, 220} THEN 2
    ELSE 0

\* A ROM byte that the step cannot read is fixed at 0: a halted CPU fetches
\* nothing; PC+1 is read only behind an opcode with operands; PC+2 is read
\* only behind a three-byte opcode or, in the double execution of the HALT
\* bug, behind a two-byte one.
StepOn(ops, ops1, ops2) ==
    \E op \in IF cpu.halted THEN {0} ELSE ops :
    \E n1 \in IF OperandBytes(op) >= 1 THEN ops1 ELSE {0} :
    \E n2 \in IF OperandBytes(op) = 2
                  \/ (OperandBytes(op) = 1 /\ cpu.halt_bug_active)
               THEN ops2 ELSE {0} :
    \E x \in Others :
        CPUStep(op, n1, n2, x)

Step == StepOn(Opcodes, Operands1, Operands2)
Press == \E button \in Buttons : PressButton(button)

Next == Step \/ Press

Spec == Init /\ [][Next]_vars

\* ------------------------------------------- conditional control transfers
\* Programs that leave the flags Z and C in each of their four combinations,
\* and one that moves the stack to work RAM first:
\*   (none); XOR A; INC A; INC A, CCF; LD SP,0xD000, INC A
BranchSetups ==
    {<<>>, <<175>>, <<60>>, <<60, 63>>, <<49, 0, 208, 60>>}

BranchOpcodes ==
    {32, 40, 48, 56, 194, 202, 210, 218, 196, 204, 212, 220,
     192, 200, 208, 216, 0}
BranchOperands1 == {5, 250}
BranchOperands2 == {1}

InitBranch == InitFrom(BranchSetups)
StepBranch == StepOn(BranchOpcodes, BranchOperands1, BranchOperands2)
NextBranch == StepBranch
SpecBranch == InitBranch /\ [][NextBranch]_vars

\* ------------------------------------------------------------ stack of AF
\* Programs that leave two bytes on the stack, in high RAM or in work RAM:
\*   (none); LD BC,nn, PUSH BC; LD SP,0xD000, LD BC,nn, PUSH BC
StackSetups ==
    {<<>>, <<1, 19, 60, 197>>, <<1, 255, 165, 197>>, <<1, 240, 0, 197>>,
     <<49, 0, 208, 1, 143, 18, 197>>}

StackOpcodes == {241, 245, 197, 193, 60, 55, 0}

InitStack == InitFrom(StackSetups)
StepStack == StepOn(StackOpcodes, {0}, {0})
NextStack == StepStack
SpecStack == InitStack /\ [][NextStack]_vars

\* ------------------------------------------------------- decimal adjust
\* packed BCD bytes: both nibbles in 0..9
BcdBytes == {16 * hi + lo : hi \in 0..9, lo \in 0..9}

\* XOR A (clears C), LD A,a, LD B,b for every pair of packed BCD bytes
BcdSetups == {<<175, 62, a, 6, b>> : a \in BcdBytes, b \in BcdBytes}

\* ADD A,B, SUB B, DAA
BcdOpcodes == {128, 144, 39}

\* two instructions behind the setup
MaxBcdCycles == 5

InitBcd ==
    \E prog \in BcdSetups : InitAt(RunSetup(Machine(CPUInit, MemoryInit), prog))
StepBcd ==
    /\ cpu.cycles < obs.start + MaxBcdCycles
    /\ StepOn(BcdOpcodes, {0}, {0})
NextBcd == StepBcd
SpecBcd == InitBcd /\ [][NextBcd]_vars

\* ------------------------------------------------------------ timer unit
\* The operations of the timer: update(v), write_register(a, v) and
\* enable_mem_timing_mode.
U(n) == [k |-> "update", a |-> -1, v |-> n]
W(a, v) == [k |-> "write", a |-> a, v |-> v]
M == [k |-> "mem_timing", a |-> -1, v |-> -1]

DIV == 65284
TIMA == 65285
TMA == 65286
TAC == 65287

\* What has been done to the timer: the last operation (kind, a, v); the
\* T-cycles advanced in all (total) and since the divider was last reset
\* (div_n), with the divider counter at that reset (c0) and the cycle counts
\* at which an update call ended since (marks); the register writes since
\* that reset (wr), the cycle count of the last one (wr_n), whether a reload
\* countdown was pending at one of them (wr_pending) and IF before the last
\* one (if0); the register writes since the initial state (nwrites).
TimerObsInit(mm) ==
    [kind |-> "init", a |-> -1, v |-> -1, start |-> 0, total |-> 0,
     div_n |-> 0, c0 |-> 0, marks |-> {0}, wr |-> <<>>, wr_n |-> 0,
     wr_pending |-> FALSE, if0 |-> IoGet(mm, 15), nwrites |-> 0]

TimerState(t, mm, o) == [t |-> t, mem |-> mm, obs |-> o]

\* the operation op on the device
timer_device(d, op) ==
    IF op.k = "update" THEN update(d, op.v)
    ELSE IF op.k = "write" THEN write_register(d, op.a, op.v)
    ELSE enable_mem_timing_mode(d)

\* the record of operation op, which took state s to the device d
timer_obs(s, op, d) ==
    IF op.k = "update"
    THEN [s.obs EXCEPT !.kind = "update", !.a = -1, !.v = op.v,
                       !.total = @ + op.v, !.div_n = @ + op.v,
                       !.marks = @ \cup {s.obs.div_n + op.v}]
    ELSE IF op.k = "write" /\ op.a # DIV
    THEN [s.obs EXCEPT !.kind = "write", !.a = op.a, !.v = op.v,
                       !.wr = Append(@, <<op.a, op.v>>),
                       !.wr_n = s.obs.div_n,
                       !.wr_pending = @ \/ s.t.tima_overflow_delay > 0,
                       !.if0 = IoGet(s.mem, 15), !.nwrites = @ + 1]
    ELSE [s.obs EXCEPT !.kind = op.k, !.a = op.a, !.v = op.v,
                       !.div_n = 0, !.c0 = d.t.div_counter, !.marks = {0},
                       !.wr = <<>>, !.wr_n = 0,
                       !.wr_pending = s.t.tima_overflow_delay > 0,
                       !.if0 = IoGet(s.mem, 15), !.nwrites = @ + 1]

timer_next(s, op, d) == TimerState(d.t, d.mem, timer_obs(s, op, d))
timer_apply(s, op) == timer_next(s, op, timer_device(Device(s.t, s.mem), op))

RECURSIVE RunTimerSetup(_, _)
RunTimerSetup(s, ops) ==
    IF ops = <<>> THEN s
    ELSE RunTimerSetup(timer_apply(s, Head(ops)), Tail(ops))

\* Operation sequences that bring the timer where its cases are:
\*   the divider 4 T-cycles before DIV counts up;
\*   TAC = 5, TMA = 0xFE, TIMA = 0xFE on the fresh divider, and 16 and 28
\*   T-cycles later;
\*   TAC = 5, 8 T-cycles later (bit 3 of the divider is high);
\*   TAC = 5, TIMA = 0xFF, 12 T-cycles later;
\*   TAC = 5, TMA = 0x80, TIMA = 0xFF, 16 T-cycles later (TIMA has
\*   overflowed, the reload is pending);
\*   the measuring mode 4 T-cycles before TIMA overflows.
TimerSetups ==
    {<<>>, <<U(252)>>,
     <<W(TAC, 5), W(TMA, 254), W(TIMA, 254)>>,
     <<W(TAC, 5), W(TMA, 254), W(TIMA, 254), U(16)>>,
     <<W(TAC, 5), W(TMA, 254), W(TIMA, 254), U(16), U(12)>>,
     <<W(TAC, 5), U(8)>>,
     <<W(TAC, 5), W(TIMA, 255), U(12)>>,
     <<W(TAC, 5), W(TMA, 128), W(TIMA, 255), U(16)>>,
     <<M, W(TIMA, 255), U(60)>>}

TimerDeltas == {2, 4, 8}
TimerWrites == {<<DIV, 0>>, <<DIV, 90>>, <<TIMA, 18>>, <<TMA, 64>>, <<TAC, 5>>}

\* T-cycles the timer is advanced past the initial state
MaxTimerCycles == 12
\* register writes past the initial state
MaxTimerWrites == 1

TimerInitAt(s) ==
    /\ cpu = CPUInit
    /\ mem = s.mem
    /\ exc = "none"
    /\ timer = s.t
    /\ ppu = PPUInit
    /\ obs = [s.obs EXCEPT !.start = s.obs.total, !.nwrites = 0]

InitTimer ==
    \E ops \in TimerSetups, mm \in LoadedMemory :
        TimerInitAt(RunTimerSetup(TimerState(TimerInit, mm, TimerObsInit(mm)),
                                  ops))

TimerCommit(s) ==
    /\ timer' = s.t
    /\ mem' = s.mem
    /\ obs' = s.obs
    /\ UNCHANGED <<cpu, exc, ppu>>

TimerOp(op) == TimerCommit(timer_apply(TimerState(timer, mem, obs), op))

TimerUpdate(n) ==
    /\ obs.total + n <= obs.start + MaxTimerCycles
    /\ TimerOp(U(n))

TimerWrite(a, v) ==
    /\ obs.nwrites < MaxTimerWrites
    /\ TimerOp(W(a, v))

TimerMemTiming ==
    /\ obs.nwrites < MaxTimerWrites
    /\ ~timer.mem_timing_enabled
    /\ TimerOp(M)

NextTimer ==
    \/ \E n \in TimerDeltas : TimerUpdate(n)
    \/ \E w \in TimerWrites : TimerWrite(w[1], w[2])
    \/ TimerMemTiming

SpecTimer == InitTimer /\ [][NextTimer]_vars

\* ------------------------------------------------------------ memory bus
\* The cartridge the bus reads: offsets 0, 1, 2 hold 195, 80, 1 and every
\* other offset holds 118.
BusRom == RomView(0, 195, 80, 1, 118)

\* a boot ROM image (all other bytes 0)
BootRomData == (0 :> 49) @@ (1 :> 254) @@ (2 :> 255) @@ (255 :> 80)

\* memories the bus starts from: a game ROM, a test ROM, a boot ROM laid
\* over a cartridge
BusMemory == LoadedMemory \cup {load_boot_rom(MemoryInit, BootRomData)}

\* cartridge control, video RAM, external RAM, work RAM, OAM, the OAM DMA
\* and boot-ROM registers, high RAM, IE
BusAddresses ==
    {0, 8192, 16384, 24576, 32767, 32768, 40960, 49152, 49153, 65024,
     65350, 65360, 65408, 65535}
BusValues == {0, 1, 10, 192}

\* bus writes past the initial state
MaxBusWrites == 2

BusObsInit == [kind |-> "init", address |-> -1, value |-> -1, n |-> 0]

InitBus ==
    /\ cpu = CPUInit
    /\ mem \in BusMemory
    /\ exc = "none"
    /\ timer = TimerInit
    /\ ppu = PPUInit
    /\ obs = BusObsInit

\* Memory.write_byte(address, value) called on the bus
BusWrite(address, value) ==
    /\ obs.n < MaxBusWrites
    /\ mem' = write_byte(mem, address, value)
    /\ obs' = [kind |-> "write", address |-> address, value |-> value,
               n |-> obs.n + 1]
    /\ UNCHANGED <<cpu, exc, timer, ppu>>

NextBus == \E address \in BusAddresses, value \in BusValues :
               BusWrite(address, value)
SpecBus == InitBus /\ [][NextBus]_vars

\* -------------------------------------------------------- cartridge bus
\* Cartridges on the bus: a 2 MiB image (128 banks) whose bank 33 starts
\* with 17, 34, 51, one whose bank 1 starts with them, and a 32 KiB image.
\* Every other offset holds 118.
BigRomLen == 2097152
CartRoms ==
    {[RomView(33 * 16384, 17, 34, 51, 118) EXCEPT !.len = BigRomLen],
     [RomView(16384, 17, 34, 51, 118) EXCEPT !.len = BigRomLen],
     RomView(16384, 17, 34, 51, 118)}

\* bus writes <<address, value>>: RAM enable, ROM bank low bits, ROM bank
\* high bits / RAM bank, banking mode, external RAM, the prohibited region
CartWrites ==
    {<<0, 0>>, <<0, 10>>, <<8191, 26>>,
     <<8192, 0>>, <<8192, 2>>, <<16383, 224>>,
     <<16384, 0>>, <<16384, 1>>, <<24575, 7>>,
     <<24576, 1>>, <<32767, 2>>,
     <<40960, 85>>, <<49151, 255>>,
     <<65184, 85>>, <<65279, 0>>}

\* write sequences performed on the bus before the initial state
CartSetups ==
    {<< >>,
     <<<<0, 10>>, <<40960, 85>>>>,
     <<<<24576, 1>>, <<16384, 1>>>>}

\* bus writes past the initial state
MaxCartWrites == 3

\* What has been observed of the bus: the last write, the number of writes
\* past the initial state, the cartridge, the low five bits last written to
\* 0x2000..0x3FFF and the two bits last written to 0x4000..0x5FFF in banking
\* mode 0 (the constructor's rom_bank = 1 before any such write), the value
\* last written to 0x0000..0x1FFF (-1: none), the bytes written to external
\* RAM while that value had low nibble 0xA, and whether a write to external
\* RAM was made while it had not.
CartObsInit(rom) ==
    [kind |-> "init", address |-> -1, value |-> -1, n |-> 0, rom |-> rom,
     low |-> 1, high |-> 0, enable |-> -1, shadow |-> Empty,
     dropped |-> FALSE]

\* Memory.write_byte(address, value) on the bus, with what it lets observe
cart_apply(s, w) ==
    LET address == w[1]
        value == w[2]
        o == s.obs
        enabled == o.enable # -1 /\ o.enable % 16 = 10
    IN [mem |-> write_byte(s.mem, address, value),
        obs |-> [o EXCEPT
                   !.kind = "write", !.address = address, !.value = value,
                   !.low = IF address \in 8192..16383
                           THEN value % 32 ELSE @,
                   !.high = IF address \in 16384..24575
                               /\ s.mem.banking_mode = 0
                            THEN value % 4 ELSE @,
                   !.enable = IF address < 8192 THEN value ELSE @,
                   !.shadow = IF address \in 40960..49151 /\ enabled
                              THEN Put(@, address - 40960, value, 0)
                              ELSE @,
                   !.dropped = IF address \in 40960..49151 /\ ~enabled
                               THEN TRUE ELSE @]]

RECURSIVE RunCartSetup(_, _)
RunCartSetup(s, ws) ==
    IF ws = << >> THEN s
    ELSE RunCartSetup(cart_apply(s, Head(ws)), Tail(ws))

CartInitAt(s) ==
    /\ cpu = CPUInit
    /\ mem = s.mem
    /\ exc = "none"
    /\ timer = TimerInit
    /\ ppu = PPUInit
    /\ obs = s.obs

InitCart ==
    \E rom \in CartRoms, ws \in CartSetups :
        CartInitAt(RunCartSetup([mem |-> MemoryInit, obs |-> CartObsInit(rom)],
                                ws))

CartCommit(s) ==
    /\ mem' = s.mem
    /\ obs' = [s.obs EXCEPT !.n = obs.n + 1]
    /\ UNCHANGED <<cpu, exc, timer, ppu>>

CartWrite(w) ==
    /\ obs.n < MaxCartWrites
    /\ CartCommit(cart_apply([mem |-> mem, obs |-> obs], w))

NextCart == \E w \in CartWrites : CartWrite(w)
SpecCart == InitCart /\ [][NextCart]_vars

\* ------------------------------------------------------------- properties
\* what the bus returns for a RAM or register address (no ROM is read)
NoRom == RomView(0, 0, 0, 0, 0)
Peek(mm, address) == read_byte(mm, NoRom, address)
IE_of(mm) == Peek(mm, 65535)
IF_of(mm) == Peek(mm, 65295)
\* IE & IF & 0x1F
Pending(mm) == And(IE_of(mm), IF_of(mm)) % 32
LowestBit(x) ==
    CHOOSE b \in 0..4 : Bit(x, b) = 1 /\ \A k \in 0..(b - 1) : Bit(x, k) = 0
\* the transition is a call of CPU.step
Stepped == cpu' # cpu
\* work RAM and high RAM
InRam(address) ==
    W16(address) \in 49152..57343 \/ W16(address) \in 65408..65534
Registers(c) ==
    <<c.a, c.b, c.c, c.d, c.e, c.h, c.l,
      c.flag_z, c.flag_n, c.flag_h, c.flag_c>>
\* the word on top of a stack at sp
TopWord(mm, sp) == Peek(mm, sp + 1) * 256 + Peek(mm, sp)
\* IME as the interrupt check of the next step sees it
ImeAtCheck(c) == c.interrupt_master_enable \/ c.ei_delay = 1

\* C1: a step that begins with IME true and IE & IF & 0x1F nonzero (stack in
\* RAM) executes no opcode and services the lowest pending bit b: IME false,
\* IF loses bit b only, old PC pushed high byte first, SP - 2,
\* PC = 0x40 + 8b, cycles + 20.
C1_ServiceLowestPending ==
    [][(Stepped /\ cpu.interrupt_master_enable /\ Pending(mem) # 0
        /\ InRam(cpu.sp - 1) /\ InRam(cpu.sp - 2))
       => LET b == LowestBit(Pending(mem))
          IN /\ obs'.kind = "service"
             /\ obs'.op = -1
             /\ Registers(cpu') = Registers(cpu)
             /\ ~cpu'.interrupt_master_enable
             /\ IF_of(mem') = IF_of(mem) - 2 ^ b
             /\ cpu'.sp = W16(cpu.sp + 65534)
             /\ Peek(mem', cpu.sp - 1) = cpu.pc \div 256
             /\ Peek(mem', cpu.sp - 2) = cpu.pc % 256
             /\ cpu'.pc = 64 + 8 * b
             /\ cpu'.cycles = cpu.cycles + 20]_vars

\* bit 1 was serviced while bits 2 and 3 stay pending
C1_Witness ==
    /\ obs.kind = "service"
    /\ cpu.pc = 72
    /\ IE_of(mem) = 14
    /\ IF_of(mem) = 12
    /\ IF_of(obs.mem0) = 14
    /\ ~cpu.interrupt_master_enable
    /\ TopWord(mem, cpu.sp) > 256

\* C2: after EI executed with IME false and an enabled interrupt pending,
\* the next step executes an instruction (does not service), and the step
\* after that instruction services the interrupt.
C2_EiDelayOneInstruction ==
    [][Stepped =>
        /\ (obs.kind = "exec" /\ obs.op = 251
            /\ ~cpu.interrupt_master_enable /\ Pending(mem) # 0)
           => obs'.kind # "service"
        /\ (obs.prev_kind = "exec" /\ obs.prev_op = 251 /\ obs.kind = "exec"
            /\ ~cpu.interrupt_master_enable /\ Pending(mem) # 0)
           => obs'.kind = "service"]_vars

\* C3: a CPU halted with IME false stops being halted at the first step
\* that sees IE & IF & 0x1F nonzero, and that step services nothing: IF,
\* SP and memory keep their values.
C3_HaltWakesWithoutService ==
    [][(Stepped /\ cpu.halted /\ ~cpu.interrupt_master_enable
        /\ cpu.ei_delay = 0 /\ Pending(mem) # 0)
       => /\ ~cpu'.halted
          /\ IF_of(mem') = IF_of(mem)
          /\ cpu'.sp = cpu.sp
          /\ mem' = mem]_vars

\* C4: HALT executed with IME true halts; a halted CPU with IME true stays
\* halted (4 T-cycles a step) while IE & IF & 0x1F is zero; the step that
\* sees it nonzero services the lowest pending interrupt: 20 T-cycles, that
\* one IF bit cleared, IME false, not halted, and the return address pushed
\* is the address after the HALT.
C4_HaltWithImeServices ==
    [][Stepped =>
        /\ (obs'.kind = "exec" /\ obs'.op = 118 /\ ImeAtCheck(cpu))
           => cpu'.halted
        /\ (cpu.halted /\ ImeAtCheck(cpu) /\ Pending(mem) = 0)
           => /\ cpu'.halted
              /\ obs'.kind = "idle"
              /\ cpu'.cycles = cpu.cycles + 4
              /\ cpu'.pc = cpu.pc
              /\ mem' = mem
        /\ (cpu.halted /\ ImeAtCheck(cpu) /\ Pending(mem) # 0
            /\ InRam(cpu.sp - 1) /\ InRam(cpu.sp - 2))
           => /\ obs'.kind = "service"
              /\ cpu'.cycles = cpu.cycles + 20
              /\ IF_of(mem') = IF_of(mem) - 2 ^ LowestBit(Pending(mem))
              /\ ~cpu'.interrupt_master_enable
              /\ ~cpu'.halted
              /\ cpu'.sp = W16(cpu.sp + 65534)
              /\ TopWord(mem', cpu'.sp) = W16(obs.halt_at + 1)]_vars

\* a halted CPU idled, then the joypad interrupt was serviced
C4_Witness ==
    /\ obs.kind = "service"
    /\ obs.prev_kind = "idle"
    /\ obs.halt_at >= 0
    /\ ~cpu.halted
    /\ cpu.pc = 96
    /\ TopWord(mem, cpu.sp) = obs.halt_at + 1

\* C5: HALT executed with IME false and IE & IF nonzero does not halt; the
\* step after it executes the byte behind HALT twice (both executions fetch
\* that byte) and the anomaly is over after that step.
C5_HaltBugSameByteTwice ==
    [][Stepped =>
        /\ (obs'.kind = "exec" /\ obs'.op = 118 /\ ~ImeAtCheck(cpu)
            /\ And(IE_of(mem), IF_of(mem)) # 0)
           => (~cpu'.halted /\ cpu'.halt_bug_active)
        /\ (obs.kind = "exec" /\ obs.op = 118 /\ cpu.halt_bug_active
            /\ obs'.kind # "service" /\ exc' = "none")
           => /\ obs'.kind = "halt_bug"
              /\ obs'.at = W16(obs.halt_at + 1)
              /\ obs'.op2 = obs'.op
              /\ obs'.at2 = obs'.at
              /\ ~cpu'.halt_bug_active]_vars

\* C6: no step raises, and an opcode without an implementation changes
\* nothing but PC (+1) and cycles (+4).
C6_StepNeverRaises ==
    [][Stepped =>
        /\ exc' = "none"
        /\ (obs'.kind = "exec" /\ obs'.op \in Unimplemented)
           => /\ Registers(cpu') = Registers(cpu)
              /\ cpu'.sp = cpu.sp
              /\ cpu'.halted = cpu.halted
              /\ cpu'.pc = W16(cpu.pc + 1)
              /\ cpu'.cycles = cpu.cycles + 4
              /\ mem' = mem]_vars

\* C7: every step increases cycles by a positive multiple of 4.
C7_CyclesPositiveMultipleOf4 ==
    [][Stepped =>
        /\ cpu'.cycles > cpu.cycles
        /\ (cpu'.cycles - cpu.cycles) % 4 = 0]_vars

\* the conditional control transfers, by condition and by kind
OpsNZ == {32, 194, 196, 192}
OpsZ == {40, 202, 204, 200}
OpsNC == {48, 210, 212, 208}
OpsC == {56, 218, 220, 216}
OpsJR == {32, 40, 48, 56}
OpsJP == {194, 202, 210, 218}
OpsCALL == {196, 204, 212, 220}
OpsRET == {192, 200, 208, 216}
CondOps == OpsNZ \cup OpsZ \cup OpsNC \cup OpsC
\* cc holds of the flags of c
CondHolds(op, c) ==
    IF op \in OpsNZ THEN ~c.flag_z
    ELSE IF op \in OpsZ THEN c.flag_z
    ELSE IF op \in OpsNC THEN ~c.flag_c
    ELSE c.flag_c
CondCost(op, taken) ==
    IF op \in OpsJR THEN (IF taken THEN 12 ELSE 8)
    ELSE IF op \in OpsJP THEN (IF taken THEN 16 ELSE 12)
    ELSE IF op \in OpsCALL THEN (IF taken THEN 24 ELSE 12)
    ELSE (IF taken THEN 20 ELSE 8)
CondLength(op) ==
    IF op \in OpsJR THEN 2 ELSE IF op \in OpsRET THEN 1 ELSE 3

\* C8: JR cc costs 12 taken / 8 not taken, JP cc 16 / 12, CALL cc 24 / 12,
\* RET cc 20 / 8, by the tested flag alone; not taken, PC is just past the
\* instruction and SP and memory are unchanged.
C8_ConditionalTransferCost ==
    [][(Stepped /\ obs'.kind = "exec" /\ obs'.op \in CondOps)
       => LET taken == CondHolds(obs'.op, cpu)
          IN /\ cpu'.cycles = cpu.cycles + CondCost(obs'.op, taken)
             /\ ~taken => /\ cpu'.pc = W16(obs'.at + CondLength(obs'.op))
                          /\ cpu'.sp = cpu.sp
                          /\ mem' = mem]_vars

\* JR NZ not taken (8), then CALL Z taken (24), with Z set
C8_Witness ==
    /\ obs.prev_kind = "exec"
    /\ obs.prev_op = 32
    /\ obs.kind = "exec"
    /\ obs.op = 204
    /\ cpu.flag_z
    /\ cpu.cycles = obs.start + 32
    /\ cpu.sp = W16(obs.sp0 + 65534)
    /\ cpu.pc = 261

\* C9: the packed F has a zero low nibble in every state; POP AF sets the
\* flags from the high nibble of the byte at SP whatever its low nibble is,
\* and the byte PUSH AF writes at the new SP is F with a zero low nibble.
C9_FLowNibbleZero ==
    [][Stepped =>
        /\ get_f(cpu') % 16 = 0
        /\ (obs'.kind = "exec" /\ obs'.op = 241)
           => get_f(cpu') = Peek(mem, cpu.sp) - (Peek(mem, cpu.sp) % 16)
        /\ (obs'.kind = "exec" /\ obs'.op = 245 /\ InRam(cpu.sp - 2))
           => /\ Peek(mem', cpu'.sp) = get_f(cpu)
              /\ Peek(mem', cpu'.sp) % 16 = 0]_vars

\* POP AF has read an F byte whose low nibble was not zero
C9_Witness ==
    /\ obs.kind = "exec"
    /\ obs.op = 241
    /\ Peek(mem, obs.sp0) % 16 # 0
    /\ get_f(cpu) # 0
    /\ get_f(cpu) = Peek(mem, obs.sp0) - (Peek(mem, obs.sp0) % 16)

\* POP AF from a stack in RAM, immediately followed by PUSH AF
PopThenPush ==
    /\ Stepped
    /\ obs.kind = "exec" /\ obs.op = 241
    /\ obs'.kind = "exec" /\ obs'.op = 245
    /\ InRam(obs.sp0) /\ InRam(obs.sp0 + 1)

\* C10 as stated: POP AF then PUSH AF restores SP and every memory byte.
C10_PopPushRestoresMemory ==
    [][PopThenPush => (cpu'.sp = obs.sp0 /\ mem' = obs.mem0)]_vars

\* C10 amended: POP AF then PUSH AF restores SP and every memory byte but
\* the one at SP, which keeps its high nibble and has its low nibble zero.
C10_PopPushClearsLowNibble ==
    [][PopThenPush =>
        LET f == Peek(obs.mem0, obs.sp0)
        IN /\ cpu'.sp = obs.sp0
           /\ mem' = write_byte(obs.mem0, obs.sp0, f - (f % 16))]_vars

\* the pair ran on an F byte with a nonzero low nibble, which is now cleared
C10_Witness ==
    /\ obs.prev_kind = "exec" /\ obs.prev_op = 241
    /\ obs.kind = "exec" /\ obs.op = 245
    /\ InRam(cpu.sp) /\ InRam(cpu.sp + 1)
    /\ Peek(obs.mem0, cpu.sp) % 16 # 0
    /\ Peek(mem, cpu.sp) = Peek(obs.mem0, cpu.sp) - (Peek(obs.mem0, cpu.sp) % 16)
    /\ Peek(mem, cpu.sp + 1) = cpu.a

\* value of a packed BCD byte, and the packed BCD byte of a value in 0..99
BcdValue(x) == 10 * (x \div 16) + (x % 16)
BcdPack(n) == 16 * (n \div 10) + (n % 10)

\* the step executes DAA right behind an ADD A,B or SUB B whose operands
\* were packed BCD bytes and whose entry had C clear
DaaAfter(op) ==
    /\ obs.kind = "exec" /\ obs.op = op /\ ~obs.fc0
    /\ obs.a0 \in BcdBytes /\ cpu.b \in BcdBytes
    /\ Stepped /\ obs'.kind = "exec" /\ obs'.op = 39 /\ exc' = "none"

\* C11: for packed BCD a and b with C clear on entry, ADD A,B then DAA leaves
\* A = BCD((a + b) mod 100) with C set exactly when a + b >= 100, and SUB B
\* then DAA leaves A = BCD((a - b) mod 100) with C set exactly when a < b;
\* Z is set exactly when the result is 0 and H is cleared.
C11_DaaAdjustsBcd ==
    [][/\ DaaAfter(128) =>
            LET n == BcdValue(obs.a0) + BcdValue(cpu.b)
            IN /\ cpu'.a = BcdPack(n % 100)
               /\ cpu'.flag_c = (n >= 100)
               /\ cpu'.flag_z = (n % 100 = 0)
               /\ ~cpu'.flag_h
       /\ DaaAfter(144) =>
            LET n == BcdValue(obs.a0) - BcdValue(cpu.b)
            IN /\ cpu'.a = BcdPack((n + 100) % 100)
               /\ cpu'.flag_c = (n < 0)
               /\ cpu'.flag_z = (n = 0)
               /\ ~cpu'.flag_h]_vars

\* 0x19 - 0x27 then DAA: A = 0x92 with C set
C11_Witness ==
    /\ obs.kind = "exec" /\ obs.op = 39 /\ obs.prev_op = 144
    /\ cpu.b = 39 /\ cpu.a = 146 /\ cpu.flag_c /\ ~cpu.flag_h /\ ~cpu.flag_z

\* ------------------------------------------------------ timer properties
\* what a read of DIV returns
DivRead == read_register(Device(timer, mem), DIV)
TimaOf(mm) == IoGet(mm, 5)
TmaOf(mm) == IoGet(mm, 6)
\* IF bit 2
IfTimer(mm) == TestBit(IoGet(mm, 15), 2)
TimerEnabled(mm) == TestBit(IoGet(mm, 7), 2)
\* T-cycles per TIMA increment that TAC selects
Period(mm) == frequencies(IoGet(mm, 7) % 4)
\* the transition is a call of Timer.update / of Timer.write_register
Updated == obs' # obs /\ obs'.kind = "update"
Written(a) == obs' # obs /\ obs'.kind = "write" /\ obs'.a = a

\* C12: while 0xFF04 is not written, after n T-cycles of update calls a read
\* of DIV returns ((c0 + n) >> 8) & 0xFF, c0 being the divider counter at
\* the start.
C12_DivFollowsCounter ==
    DivRead = ((obs.c0 + obs.div_n) \div 256) % 256

\* C13: a write of any value to 0xFF04, in any timer state, leaves the whole
\* divider counter 0, and DIV reads 0.
C13_DivWriteClearsCounter ==
    [][Written(DIV) =>
         /\ timer'.div_counter = 0
         /\ IoGet(mem', 4) = 0
         /\ read_register(Device(timer', mem'), DIV) = 0]_vars

\* DIV written 252 T-cycles after construction
C13_Witness ==
    /\ obs.kind = "write" /\ obs.a = DIV /\ obs.total = 252
    /\ timer.div_counter = 0 /\ DivRead = 0

\* C14: when an enabled timer increments TIMA from 0xFF, TIMA reads 0 and IF
\* bit 2 is not set while the reload countdown is pending; the countdown lies
\* in 0..4; once exactly 4 further T-cycles have elapsed TIMA = TMA and IF
\* bit 2 is set.  Stated for one update call of v T-cycles: a countdown that
\* outlasts the call, a countdown that ends with the call, and an overflow
\* that falls Behind T-cycles before the end of the call.
C14_OverflowReloadsAfterFour ==
    [][Updated =>
         /\ timer'.tima_overflow_delay \in 0..4
         /\ (timer.tima_overflow_delay > obs'.v /\ TimaOf(mem) = 0) =>
                /\ TimaOf(mem') = 0
                /\ IfTimer(mem') = IfTimer(mem)
                /\ timer'.tima_overflow_delay > 0
         /\ (timer.tima_overflow_delay > 0
                /\ timer.tima_overflow_delay = obs'.v) =>
                /\ TimaOf(mem') = TmaOf(mem')
                /\ IfTimer(mem')
                /\ timer'.tima_overflow_delay = 0
         /\ (/\ timer.tima_overflow_delay = 0 /\ TimerEnabled(mem)
             /\ ~timer.mem_timing_enabled /\ TimaOf(mem) = 255
             /\ timer.tima_counter < Period(mem)
             /\ timer.tima_counter + obs'.v >= Period(mem)) =>
                LET Behind == timer.tima_counter + obs'.v - Period(mem)
                IN IF Behind < 4
                   THEN /\ TimaOf(mem') = 0
                        /\ IfTimer(mem') = IfTimer(mem)
                        /\ timer'.tima_overflow_delay > 0
                   ELSE /\ IfTimer(mem')
                        /\ Behind = 4 => TimaOf(mem') = TmaOf(mem')]_vars

\* the scenario of C15 is running: on a freshly reset divider, with no reload
\* pending, TAC = 0x05, TMA = 0xFE, TIMA = 0xFE were written in that order
\* and nothing was written since; obs.div_n T-cycles have elapsed.
OverflowScenario ==
    /\ obs.wr = <<<<TAC, 5>>, <<TMA, 254>>, <<TIMA, 254>>>>
    /\ obs.wr_n = 0 /\ ~obs.wr_pending /\ obs.c0 = 0

C16_TimaWriteCancelsReload ==
    [][(/\ obs.kind = "write" /\ obs.a = TIMA
        /\ timer.tima_overflow_delay \in 1..4
        /\ Updated) =>
           /\ IfTimer(mem') = IfTimer(mem)
           /\ TimaOf(mem') \in
                  obs.v .. (obs.v + (obs'.v \div Period(mem)) + 1)]_vars

\* divider bit that TAC taps: 9, 3, 5, 7 for TAC bits 1-0 = 0, 1, 2, 3
TapBit(mm) ==
    CASE IoGet(mm, 7) % 4 = 0 -> 9 [] IoGet(mm, 7) % 4 = 1 -> 3
      [] IoGet(mm, 7) % 4 = 2 -> 5 [] IoGet(mm, 7) % 4 = 3 -> 7
\* (selected divider bit) AND TAC.enable
EdgeSignal(t, mm) == TimerEnabled(mm) /\ TestBit(t.div_counter, TapBit(mm))

\* C17: a write to DIV or TAC increments TIMA by one exactly when it makes
\* (selected divider bit AND TAC.enable) fall, and leaves TIMA alone
\* otherwise.
C17_WriteFallingEdge ==
    [][(Written(DIV) \/ Written(TAC)) /\ timer.tima_overflow_delay = 0 =>
         IF EdgeSignal(timer, mem) /\ ~EdgeSignal(timer', mem')
         THEN TimaOf(mem') = (TimaOf(mem) + 1) % 256
         ELSE TimaOf(mem') = TimaOf(mem)]_vars

\* -------------------------------------------------------- bus properties
\* what a read of address returns on the bus
BusRead(mm, address) == read_byte(mm, BusRom, address)
\* the transition is a bus write to address
BusWritten(address) ==
    obs' # obs /\ obs'.kind = "write" /\ obs'.address = address
\* the transition is a bus write below 0x8000
ControlWritten ==
    obs' # obs /\ obs'.kind = "write" /\ obs'.address < 32768

\* C18: a bus write of v to 0xFF46 copies the 160 bytes read at (v << 8) + i
\* into OAM[i]; right afterwards a read of 0xFE00 + i returns the source byte.
C18_OamDmaCopies ==
    [][BusWritten(65350) =>
         \A i \in 0..159 :
             BusRead(mem', 65024 + i) = BusRead(mem, obs'.value * 256 + i)]_vars

\* addresses read to watch the overlay: in the boot ROM's range and behind it
OverlayProbes == {0, 1, 2, 3, 254, 255}
CartridgeProbes == {256, 257, 258, 16383}

\* C19: while the overlay is enabled reads of 0x0000..0x00FF return boot-ROM
\* bytes and reads of 0x0100..0x3FFF cartridge bytes; a bus write of a
\* nonzero value to 0xFF50 disables the overlay; no later bus write enables
\* it again, reads of 0x0000..0x00FF then return cartridge bytes; a write of
\* 0 to 0xFF50 leaves the overlay as it is.
C19_BootOverlayOneShot ==
    [][/\ \A a \in OverlayProbes :
              BusRead(mem', a) = IF mem'.boot_rom_enabled
                                 THEN Get(BootRomData, a, 0)
                                 ELSE RomAt(BusRom, a)
       /\ \A a \in CartridgeProbes : BusRead(mem', a) = RomAt(BusRom, a)
       /\ (BusWritten(65360) /\ obs'.value # 0) => ~mem'.boot_rom_enabled
       /\ (BusWritten(65360) /\ obs'.value = 0) =>
              mem'.boot_rom_enabled = mem.boot_rom_enabled
       /\ ~mem.boot_rom_enabled => ~mem'.boot_rom_enabled]_vars

\* the overlay was disabled, then 0 was written to 0xFF50: address 0 reads
\* the cartridge byte
C19_Witness ==
    /\ mem.boot_rom = BootRomData /\ ~mem.boot_rom_enabled
    /\ obs.kind = "write" /\ obs.address = 65360 /\ obs.value = 0 /\ obs.n = 2
    /\ BusRead(mem, 0) = 195

\* C20: a bus write below 0x8000 changes at most ram_enabled, rom_bank,
\* ram_bank and banking_mode: VRAM, external RAM, work RAM, OAM, the I/O
\* registers, HRAM, IE and the boot ROM stay as they were, and so does every
\* byte read from ROM bank 0.
C20_ControlWriteFrame ==
    [][ControlWritten =>
         /\ [mem' EXCEPT !.ram_enabled = mem.ram_enabled,
                         !.rom_bank = mem.rom_bank,
                         !.ram_bank = mem.ram_bank,
                         !.banking_mode = mem.banking_mode] = mem
         /\ \A a \in CartridgeProbes : BusRead(mem', a) = BusRead(mem, a)]_vars

\* a write of 1 to 0x7FFF selected banking mode 1
C20_Witness ==
    /\ obs.kind = "write" /\ obs.address = 32767 /\ obs.value = 1
    /\ mem.banking_mode = 1 /\ mem.vram = Empty

\* -------------------------------------------------- cartridge properties
\* what a read of address returns on the bus of the cartridge in use
CartRead(mm, address) == read_byte(mm, obs.rom, address)
\* the byte of the cartridge at offset i; 0xFF past the end of the image
CartByte(i) == IF i < obs.rom.len THEN RomAt(obs.rom, i) ELSE 255
\* addresses read in the fixed and in the switchable ROM window
FixedProbes == {0, 1, 256, 16383}
BankedProbes == {16384, 16385, 16386, 16387, 32767}

\* C21 as stated: rom_bank is the low five bits last written to
\* 0x2000..0x3FFF combined with the two bits last written to 0x4000..0x5FFF
\* in banking mode 0; a read of a in 0x4000..0x7FFF returns the ROM byte at
\* (rom_bank == 0 ? 1 : rom_bank) * 0x4000 + (a - 0x4000), and a read of
\* 0x0000..0x3FFF the byte of bank 0.
C21_BankedReadLastWritten ==
    LET rom_bank == obs.low + 32 * obs.high
        bank == IF rom_bank = 0 THEN 1 ELSE rom_bank
    IN /\ \A a \in BankedProbes :
              CartRead(mem, a) = CartByte(bank * 16384 + (a - 16384))
       /\ \A a \in FixedProbes : CartRead(mem, a) = CartByte(a)

\* C21: rom_bank is the low five bits last written to 0x2000..0x3FFF, with 0
\* replaced by 1, combined with the two bits last written to 0x4000..0x5FFF
\* in banking mode 0; a read of a in 0x4000..0x7FFF returns the ROM byte at
\* rom_bank * 0x4000 + (a - 0x4000), or 0xFF when that offset is past the end
\* of the image; a read of 0x0000..0x3FFF returns the byte of bank 0.
C21_BankedRead ==
    LET low == IF obs.low = 0 THEN 1 ELSE obs.low
        rom_bank == low + 32 * obs.high
    IN /\ mem.rom_bank = rom_bank
       /\ \A a \in BankedProbes :
              CartRead(mem, a) = CartByte(rom_bank * 16384 + (a - 16384))
       /\ \A a \in FixedProbes : CartRead(mem, a) = CartByte(a)

\* 0 was written to the low bits after 1 to the high bits: bank 33 is read
C21_Witness ==
    /\ obs.low = 0 /\ obs.high = 1 /\ obs.n > 0
    /\ obs.rom.base = 33 * 16384 /\ CartRead(mem, 16384) = 17

\* addresses read in the prohibited region
ProhibitedProbes == {65184, 65185, 65279}

\* C22: a read of an address in 0xFEA0..0xFEFF returns 0xFF, and a bus write
\* to such an address leaves the whole state as it was.
C22_ProhibitedRegion ==
    [][/\ \A a \in ProhibitedProbes : CartRead(mem', a) = 255
       /\ (obs' # obs /\ obs'.address \in 65184..65279) =>
              /\ mem' = mem /\ cpu' = cpu /\ timer' = timer
              /\ exc' = "none"]_vars

\* 0x55 was written to 0xFEA0: it reads 0xFF and OAM is untouched
C22_Witness ==
    /\ obs.kind = "write" /\ obs.address = 65184 /\ obs.value = 85
    /\ CartRead(mem, 65184) = 255 /\ mem.oam = Empty

\* addresses read in external RAM
EramProbes == {40960, 40961, 49151}

\* C23: ram_enabled is true exactly when the value last written to
\* 0x0000..0x1FFF had low nibble 0xA (false before any such write); while it
\* is false a read of 0xA000..0xBFFF returns 0xFF; external RAM holds exactly
\* the bytes written while it was enabled, and those are what is read while
\* it is enabled.
C23_RamGate ==
    /\ mem.ram_enabled <=> (obs.enable # -1 /\ obs.enable % 16 = 10)
    /\ mem.eram = obs.shadow
    /\ \A a \in EramProbes :
           CartRead(mem, a) = IF mem.ram_enabled
                              THEN Get(obs.shadow, a - 40960, 0)
                              ELSE 255

\* 0x55 went to 0xA000 while enabled, a write was dropped while disabled, and
\* after 0x1A to 0x1FFF the byte reads back
C23_Witness ==
    /\ obs.dropped /\ obs.kind = "write" /\ obs.address = 8191
    /\ obs.value = 26 /\ mem.ram_enabled /\ CartRead(mem, 40960) = 85

\* ---------------------------------------------------------------- joypad
\* Memory.press_direction / Memory.release_direction
press_direction(mm, rom, direction) ==
    IF 0 <= direction /\ direction <= 3
    THEN trigger_joypad_interrupt(
             [mm EXCEPT !.joypad_directions = AndNot(@, 2 ^ direction)], rom)
    ELSE mm

release_direction(mm, direction) ==
    IF 0 <= direction /\ direction <= 3
    THEN [mm EXCEPT !.joypad_directions = Or(@, 2 ^ direction)]
    ELSE mm

\* keys of a group that are pressed and released; bus writes that select a
\* group (0xFF00) or acknowledge the interrupt (0xFF0F)
JoyKeys == {0, 3}
JoyWrites == {<<65280, 0>>, <<65280, 16>>, <<65280, 32>>, <<65280, 48>>,
              <<65295, 0>>}

\* joypad events and bus writes past the initial state
MaxJoyEvents == 3

\* What has been observed: the last event and its argument, the number of
\* events, the buttons and directions pressed and not yet released, and the
\* value last written to 0xFF00 (the post-boot P1 before any write).
JoyObsInit ==
    [kind |-> "init", arg |-> -1, n |-> 0, buttons |-> {}, directions |-> {},
     select |-> IoInit(0)]

InitJoy ==
    /\ cpu = CPUInit
    /\ mem \in LoadedMemory
    /\ exc = "none"
    /\ timer = TimerInit
    /\ ppu = PPUInit
    /\ obs = JoyObsInit

JoyCommit(mm, o) ==
    /\ obs.n < MaxJoyEvents
    /\ mem' = mm
    /\ obs' = [o EXCEPT !.n = obs.n + 1]
    /\ UNCHANGED <<cpu, exc, timer, ppu>>

JoyPressButton(b) ==
    JoyCommit(press_button(mem, RomView(0, 0, 0, 0, 0), b),
              [obs EXCEPT !.kind = "press_button", !.arg = b,
                          !.buttons = @ \cup {b}])

JoyReleaseButton(b) ==
    JoyCommit(release_button(mem, b),
              [obs EXCEPT !.kind = "release_button", !.arg = b,
                          !.buttons = @ \ {b}])

JoyPressDirection(d) ==
    JoyCommit(press_direction(mem, RomView(0, 0, 0, 0, 0), d),
              [obs EXCEPT !.kind = "press_direction", !.arg = d,
                          !.directions = @ \cup {d}])

JoyReleaseDirection(d) ==
    JoyCommit(release_direction(mem, d),
              [obs EXCEPT !.kind = "release_direction", !.arg = d,
                          !.directions = @ \ {d}])

JoyWrite(w) ==
    JoyCommit(write_byte(mem, w[1], w[2]),
              [obs EXCEPT !.kind = "write", !.arg = w[1],
                          !.select = IF w[1] = 65280 THEN w[2] ELSE @])

NextJoy ==
    \/ \E b \in JoyKeys : JoyPressButton(b)
    \/ \E b \in JoyKeys : JoyReleaseButton(b)
    \/ \E d \in JoyKeys : JoyPressDirection(d)
    \/ \E d \in JoyKeys : JoyReleaseDirection(d)
    \/ \E w \in JoyWrites : JoyWrite(w)

SpecJoy == InitJoy /\ [][NextJoy]_vars

\* ----------------------------------------------------- joypad properties
\* IF bit 4
IfJoypad(mm) == TestBit(IF_of(mm), 4)
\* the select bit of the buttons (5) / of the directions (4) is low in the
\* value last written to 0xFF00
ButtonsSelected(o) == ~TestBit(o.select, 5)
DirectionsSelected(o) == ~TestBit(o.select, 4)

\* C30: a press sets IF bit 4 exactly when the key was released and its
\* group is selected in the value last written to 0xFF00 (otherwise the bit
\* stays as it was); a release leaves the bit as it was; while a key is held
\* and its group is selected, its bit in a read of 0xFF00 is 0.
C30_JoypadPress ==
    [][/\ (obs' # obs /\ obs'.kind = "press_button") =>
              IfJoypad(mem') = (IfJoypad(mem) \/
                  (obs'.arg \notin obs.buttons /\ ButtonsSelected(obs)))
       /\ (obs' # obs /\ obs'.kind = "press_direction") =>
              IfJoypad(mem') = (IfJoypad(mem) \/
                  (obs'.arg \notin obs.directions /\ DirectionsSelected(obs)))
       /\ (obs' # obs /\ obs'.kind \in {"release_button", "release_direction"})
              => IfJoypad(mem') = IfJoypad(mem)
       /\ ButtonsSelected(obs') =>
              \A b \in obs'.buttons : ~TestBit(Peek(mem', 65280), b)
       /\ DirectionsSelected(obs') =>
              \A d \in obs'.directions : ~TestBit(Peek(mem', 65280), d)]_vars

\* ----------------------------------------------------------- serial port
\* SerialPort.__init__: the fields of the serial port (text_output is the
\* printable rendering of output_buffer)
SerialInit ==
    [transfer_in_progress |-> FALSE, transfer_cycles |-> 0,
     transfer_data |-> 0, output_buffer |-> << >>]

\* GameBoy.__init__: memory.serial = SerialPort(memory)
AttachSerial(mm) ==
    [f \in (DOMAIN mm) \cup {"serial"} |->
        IF f = "serial" THEN SerialInit ELSE mm[f]]

\* complete_transfer that leaves SB as the program wrote it
complete_transfer_keeps_sb(mm) ==
    LET sb == mm.serial.transfer_data
        m1 == [mm EXCEPT !.serial.output_buffer = Append(@, sb)]
        m2 == IoPut(m1, 2, And(IoGet(m1, 2), 127))
        m3 == write_byte(m2, 65295,
                         Or(read_byte(m2, RomView(0, 0, 0, 0, 0), 65295), 8))
    IN [m3 EXCEPT !.serial.transfer_in_progress = FALSE]

\* SerialPort.complete_transfer
complete_transfer(mm) ==
    LET sb == mm.serial.transfer_data
        m1 == [mm EXCEPT !.serial.output_buffer = Append(@, sb)]
        m2 == IoPut(IoPut(m1, 1, 255), 2, And(IoGet(m1, 2), 127))
        m3 == write_byte(m2, 65295,
                         Or(read_byte(m2, RomView(0, 0, 0, 0, 0), 65295), 8))
    IN [m3 EXCEPT !.serial.transfer_in_progress = FALSE]

\* SerialPort.start_transfer
start_transfer(mm) ==
    LET sc == IoGet(mm, 2)
        sb == IoGet(mm, 1)
    IN IF TestBit(sc, 0)
       THEN complete_transfer(
                [mm EXCEPT !.serial.transfer_in_progress = TRUE,
                           !.serial.transfer_cycles = 0,
                           !.serial.transfer_data = sb])
       ELSE IoPut(IoPut(mm, 1, 255), 2, And(IoGet(mm, 2), 127))

\* SerialPort.write_register
serial_write_register(mm, address, value0) ==
    LET value == W8(value0) IN
    IF address = 65281 THEN IoPut(mm, 1, value)
    ELSE IF address = 65282 THEN
        LET old_sc == IoGet(mm, 2)
            m1 == IoPut(mm, 2, And(value, 131))
        IN IF TestBit(value, 7) /\ ~TestBit(old_sc, 7)
           THEN start_transfer(m1) ELSE m1
    ELSE mm

\* SerialPort.read_register
serial_read_register(mm, address) ==
    IF address = 65281 THEN IoGet(mm, 1)
    ELSE IF address = 65282 THEN IoGet(mm, 2)
    ELSE 255

\* SerialPort.update
serial_update(mm, cycles) ==
    IF mm.serial.transfer_in_progress
    THEN LET m1 == [mm EXCEPT !.serial.transfer_cycles = @ + cycles]
         IN IF m1.serial.transfer_cycles >= 4096
            THEN complete_transfer(m1) ELSE m1
    ELSE mm

\* Memory.write_byte / Memory.read_byte with the serial port attached
write_byte_attached(mm, address, value) ==
    IF W16(address) \in 65281..65282
    THEN serial_write_register(mm, W16(address), W8(value))
    ELSE write_byte(mm, address, value)

read_byte_attached(mm, address) ==
    IF W16(address) \in 65281..65282
    THEN serial_read_register(mm, W16(address))
    ELSE read_byte(mm, RomView(0, 0, 0, 0, 0), address)

\* bus writes: SB, SC, and IF (the program acknowledging the interrupt)
SerialWrites ==
    {<<65281, 65>>, <<65281, 10>>, <<65281, 255>>,
     <<65282, 129>>, <<65282, 128>>, <<65282, 1>>, <<65282, 255>>,
     <<65295, 0>>}
\* T-cycles handed to SerialPort.update
SerialDeltas == {4, 4096}

\* bus writes and updates past the initial state
MaxSerialOps == 4

\* What has been observed: the last operation, the number of operations, and
\* the SB values read on the bus just before each write to SC that had bit 7
\* and bit 0 set.
SerialObsInit ==
    [kind |-> "init", address |-> -1, value |-> -1, n |-> 0, sent |-> << >>]

InitSerial ==
    /\ cpu = CPUInit
    /\ mem \in {AttachSerial(mm) : mm \in LoadedMemory}
    /\ exc = "none"
    /\ timer = TimerInit
    /\ ppu = PPUInit
    /\ obs = SerialObsInit

SerialWrite(w) ==
    /\ obs.n < MaxSerialOps
    /\ mem' = write_byte_attached(mem, w[1], w[2])
    /\ obs' = [kind |-> "write", address |-> w[1], value |-> w[2],
               n |-> obs.n + 1,
               sent |-> IF w[1] = 65282 /\ TestBit(w[2], 7) /\ TestBit(w[2], 0)
                        THEN Append(obs.sent, read_byte_attached(mem, 65281))
                        ELSE obs.sent]
    /\ UNCHANGED <<cpu, exc, timer, ppu>>

SerialUpdate(cycles) ==
    /\ obs.n < MaxSerialOps
    /\ mem' = serial_update(mem, cycles)
    /\ obs' = [obs EXCEPT !.kind = "update", !.address = -1,
                          !.value = cycles, !.n = @ + 1]
    /\ UNCHANGED <<cpu, exc, timer, ppu>>

NextSerial ==
    \/ \E w \in SerialWrites : SerialWrite(w)
    \/ \E cycles \in SerialDeltas : SerialUpdate(cycles)

SpecSerial == InitSerial /\ [][NextSerial]_vars

\* ------------------------------------------------------ serial properties
\* the transition is a write to SC with bit 7 and bit 0 set
TransferWrite ==
    /\ obs' # obs /\ obs'.kind = "write" /\ obs'.address = 65282
    /\ TestBit(obs'.value, 7) /\ TestBit(obs'.value, 0)

\* C29: a write to SC with bit 7 and bit 0 set appends the SB byte read just
\* before it to the output, and leaves SB = 0xFF, SC bit 7 = 0 and IF bit 3
\* set; the output is at all times the sequence of those SB bytes, in order,
\* and no other operation changes it.
C29_SerialOutput ==
    [][/\ TransferWrite =>
              /\ mem'.serial.output_buffer =
                     Append(mem.serial.output_buffer,
                            read_byte_attached(mem, 65281))
              /\ read_byte_attached(mem', 65281) = 255
              /\ ~TestBit(read_byte_attached(mem', 65282), 7)
              /\ TestBit(read_byte_attached(mem', 65295), 3)
       /\ mem'.serial.output_buffer = obs'.sent
       /\ Len(mem'.serial.output_buffer) = Len(obs'.sent)]_vars

\* 'A' then a newline were sent, the interrupt acknowledged in between
C29_Witness ==
    /\ mem.serial.output_buffer = <<65, 10>> /\ obs.n = 4
    /\ obs.kind = "write" /\ obs.address = 65282 /\ obs.value = 129
    /\ read_byte_attached(mem, 65281) = 255

\* ------------------------------------------------------- PPU, stepped alone
\* T-cycles handed to PPU.step: a CPU instruction, the three mode lengths,
\* one scanline, two scanlines
PpuDeltas == {4, 80, 172, 204, 456, 912}
\* bus writes: LCDC (LCD on, LCD off), STAT (LYC source), LYC, IF, and LY
\* (the last visible line, the last line of the frame), which the bus stores
\* like any other I/O register
PpuWrites ==
    {<<65344, 145>>, <<65344, 17>>, <<65345, 64>>, <<65349, 1>>, <<65295, 0>>,
     <<65348, 143>>, <<65348, 153>>}

\* calls of PPU.step and bus writes past the initial state
MaxPpuCalls == 3

\* What has been observed: the last operation, the number of operations, the
\* T-cycles stepped so far, whether LCDC bit 7 has been 1 all along and LY
\* left to the PPU, and how often the PPU has latched IF bit 0.
PpuObsInit ==
    [kind |-> "init", a |-> -1, v |-> -1, n |-> 0, total |-> 0,
     lcd_on |-> TRUE, latched |-> 0]

InitPpu ==
    /\ cpu = CPUInit
    /\ mem \in LoadedMemory
    /\ exc = "none"
    /\ timer = TimerInit
    /\ ppu = PPUInit
    /\ obs = PpuObsInit

PpuCommit(d, o) ==
    /\ obs.n < MaxPpuCalls
    /\ ppu' = d.ppu
    /\ mem' = d.mem
    /\ obs' = [o EXCEPT !.n = @ + 1, !.latched = @ + d.latched]
    /\ UNCHANGED <<cpu, exc, timer>>

\* PPU.step(cycles)
PpuStep(cycles) ==
    PpuCommit(ppu_step(Panel(ppu, mem), cycles),
              [obs EXCEPT !.kind = "step", !.a = -1, !.v = cycles,
                          !.total = @ + cycles])

\* Memory.write_byte(address, value)
PpuWrite(w) ==
    PpuCommit(Panel(ppu, write_byte(mem, w[1], w[2])),
              [obs EXCEPT !.kind = "write", !.a = w[1], !.v = w[2],
                          !.lcd_on = /\ @
                                     /\ w[1] = 65344 => TestBit(w[2], 7)
                                     /\ w[1] # 65348])

NextPpu ==
    \/ \E cycles \in PpuDeltas : PpuStep(cycles)
    \/ \E w \in PpuWrites : PpuWrite(w)

SpecPpu == InitPpu /\ [][NextPpu]_vars

\* --------------------------------------------------------- PPU properties
LcdOn(mm) == TestBit(Peek(mm, 65344), 7)
LyOf(mm) == Peek(mm, 65348)
LycOf(mm) == Peek(mm, 65349)
StatOf(mm) == Peek(mm, 65345)
\* the transition is a call of PPU.step
PpuStepped == obs' # obs /\ obs'.kind = "step"
\* the mode at T-cycle t of a frame that started at LY = 0
ModeAt(t) ==
    LET line == (t \div 456) % 154
        x == t % 456
    IN IF line >= 144 THEN 1
       ELSE IF x < 80 THEN 2
       ELSE IF x < 252 THEN 3
       ELSE 0

\* C26: with the LCD on all along and LY left to the PPU, after T-cycles t
\* in total (however split over the calls of PPU.step) the scanline is (t / 456) mod 154, the mode is
\* 2 for the first 80 T of a visible line, 3 for the next 172 T and 0 for the
\* last 204 T, and 1 on lines 144..153; bits 1..0 of get_stat() are the mode.
C26_ModeSchedule ==
    [][(PpuStepped /\ obs'.lcd_on) =>
         /\ LyOf(mem') = (obs'.total \div 456) % 154
         /\ ppu'.mode = ModeAt(obs'.total)
         /\ get_stat(Panel(ppu', mem')) % 4 = ppu'.mode]_vars

\* C27: a call of PPU.step made while LCDC bit 7 is 0 sets no bit of IF and
\* leaves the mode at 0; made while LY is 0, it leaves LY (the register and
\* get_ly()) at 0.
C27_LcdOffHolds ==
    [][(PpuStepped /\ ~LcdOn(mem)) =>
         /\ LyOf(mem) = 0 =>
                LyOf(mem') = 0 /\ get_ly(Panel(ppu', mem')) = 0
         /\ ppu'.mode = 0
         /\ AndNot(IF_of(mem'), IF_of(mem)) = 0]_vars

\* C28: with the LCD on and the LYC source enabled (STAT bit 6), a call of
\* PPU.step during which LY becomes equal to LYC sets IF bit 1; a call made
\* while no STAT source is enabled (bits 6..3 clear) leaves IF bit 1 as it
\* was.
C28_StatInterrupt ==
    [][PpuStepped =>
         /\ (/\ LcdOn(mem) /\ TestBit(StatOf(mem), 6)
             /\ LyOf(mem) # LycOf(mem) /\ LyOf(mem') = LycOf(mem))
                => TestBit(IF_of(mem'), 1)
         /\ And(StatOf(mem), 120) = 0
                => TestBit(IF_of(mem'), 1) = TestBit(IF_of(mem), 1)]_vars

\* ------------------------------------------------------- the whole machine
\* Programs at 0x0100: JP 0x0100 (16 T per step); NOP, JR -3 (4 and 12 T).
GameBoyRoms == {RomView(256, 195, 0, 1, 0), RomView(256, 0, 24, 253, 0)}

\* GameBoy.step is taken while fewer than this many T-cycles have run: one
\* frame and one instruction
MaxFrameCycles == 70240

\* What has been observed: the cartridge, the cycle count at the start, and
\* how often the PPU has latched IF bit 0.
GameBoyObsInit(rom) ==
    [kind |-> "init", rom |-> rom, start |-> 0, latched |-> 0]

\* GameBoy.__init__, load_rom and _init_post_boot_state
InitGameBoy ==
    /\ cpu = CPUInit
    /\ mem \in {AttachSerial(mm) : mm \in LoadedMemory}
    /\ exc = "none"
    /\ timer = TimerInit
    /\ ppu = PPUInit
    /\ \E rom \in GameBoyRoms : obs = GameBoyObsInit(rom)

\* GameBoy.step, the write-back of LY and STAT: d is the PPU after its step
gameboy_write_back(d) ==
    [d EXCEPT !.mem = IoPut(IoPut(d.mem, 68, get_ly(d)), 65, get_stat(d))]

\* GameBoy.step behind cpu.step: the timer (Timer.tick is handed cpu.cycles
\* and advances the timer by the cycles elapsed), SerialPort.update, PPU.step
\* and the write-back.  APU.step touches no register of the bus.
gameboy_devices(td, p, cpu_cycles) ==
    gameboy_write_back(
        ppu_step(Panel(p, serial_update(td.mem, cpu_cycles)), cpu_cycles))

\* The variables take the outcome of GameBoy.step: r is the outcome of
\* cpu.step, td the timer after its update, d the PPU after the write-back.
\* An exception of cpu.step leaves the step before the devices run.
GameBoyCommit(r, td, d) ==
    /\ ~r.m.bad
    /\ cpu' = r.m.cpu
    /\ exc' = r.m.exc
    /\ mem' = IF r.m.exc = "none" THEN d.mem ELSE r.m.mem
    /\ timer' = IF r.m.exc = "none" THEN td.t ELSE timer
    /\ ppu' = IF r.m.exc = "none" THEN d.ppu ELSE ppu
    /\ obs' = [obs EXCEPT !.kind = "step",
                          !.latched = IF r.m.exc = "none"
                                      THEN @ + d.latched ELSE @]

GameBoyDevices(r, td) ==
    GameBoyCommit(r, td, gameboy_devices(td, ppu, r.m.cpu.cycles - cpu.cycles))

GameBoyTimer(r) ==
    GameBoyDevices(r, update(Device(timer, r.m.mem),
                             r.m.cpu.cycles - cpu.cycles))

\* GameBoy.step
GameBoyStep ==
    /\ exc = "none"
    /\ cpu.cycles < obs.start + MaxFrameCycles
    /\ GameBoyTimer(step(Machine(cpu, mem), obs.rom))

NextGameBoy == GameBoyStep
SpecGameBoy == InitGameBoy /\ [][NextGameBoy]_vars

\* --------------------------------------------------- machine properties
\* T-cycles run since the initial state
FrameCycles == cpu.cycles - obs.start
\* LY 143 -> 144 transitions in t T-cycles of a frame that started at LY = 0
VBlanksIn(t) == IF t >= 65664 THEN 1 + (t - 65664) \div 70224 ELSE 0

step_calls == <<"cpu", "timer", "serial", "ppu", "apu">>
run_calls == step_calls \o <<"ppu">>

\* a scheduler iteration is taken while fewer than this many T-cycles have run
MaxSchedCycles == 64

\* GameBoy.step as the scheduler runs it
SchedStep ==
    /\ exc = "none"
    /\ cpu.cycles < obs.start + MaxSchedCycles
    /\ GameBoyTimer(step(Machine(cpu, mem), obs.rom))

\* The variables take the outcome of one iteration of the loop of
\* GameBoy.run: r is the outcome of cpu.step, td the timer after its update,
\* d the PPU after the write-back of GameBoy.step and the second PPU.step.
\* An exception of cpu.step ends the loop before any device runs.
RunCommit(r, td, d) ==
    /\ ~r.m.bad
    /\ cpu' = r.m.cpu
    /\ exc' = r.m.exc
    /\ mem' = IF r.m.exc = "none" THEN d.mem ELSE r.m.mem
    /\ timer' = IF r.m.exc = "none" THEN td.t ELSE timer
    /\ ppu' = IF r.m.exc = "none" THEN d.ppu ELSE ppu
    /\ obs' = [obs EXCEPT !.kind = "run",
                          !.latched = IF r.m.exc = "none"
                                      THEN @ + d.latched ELSE @]

RunDevices(r, td) ==
    RunCommit(r, td,
              ppu_step(gameboy_devices(td, ppu, r.m.cpu.cycles - cpu.cycles),
                       r.m.cpu.cycles - cpu.cycles))

RunTimer(r) ==
    RunDevices(r, update(Device(timer, r.m.mem), r.m.cpu.cycles - cpu.cycles))

\* one iteration of the loop of GameBoy.run
SchedRun ==
    /\ exc = "none"
    /\ cpu.cycles < obs.start + MaxSchedCycles
    /\ RunTimer(step(Machine(cpu, mem), obs.rom))

NextSched == SchedStep \/ SchedRun
SpecSched == InitGameBoy /\ [][NextSched]_vars

\* ------------------------------------------------- scheduler properties
\* the calls of the iteration just taken
CallsTaken == IF obs'.kind = "run" THEN run_calls ELSE step_calls
\* T-cycles the CPU step of the transition consumed
Consumed == cpu'.cycles - cpu.cycles

C32_DiHoldsIme ==
    [][(Stepped /\ obs.kind = "exec" /\ obs.op = 243)
         => /\ obs'.kind # "service"
            /\ ~cpu.interrupt_master_enable
            /\ (obs'.kind = "exec" /\ obs'.op \notin {251, 217})
                 => ~cpu'.interrupt_master_enable]_vars

\* ------------------------------------------------------- SUB immediate
\* addresses SUB n is fetched from
SubTargets == {336, 531, 532}
SubAs == {0, 1, 5, 6, 15, 16, 32, 250, 255}
SubNs == {0, 1, 5, 6, 16, 255}

\* LD A,a, LD B,n, JP target
SubSetups ==
    {<<62, a, 6, n, 195, t % 256, t \div 256>> :
         a \in SubAs, n \in SubNs, t \in SubTargets}

\* SUB n, SUB B
SubOpcodes == {214, 144}

\* two instructions behind the setup
MaxSubCycles == 9

InitSub ==
    \E prog \in SubSetups : InitAt(RunSetup(Machine(CPUInit, MemoryInit), prog))
\* the ROM holds behind the opcode the byte that B holds
StepSub ==
    /\ cpu.cycles < obs.start + MaxSubCycles
    /\ \E op \in SubOpcodes : CPUStep(op, cpu.b, 0, 0)
NextSub == StepSub
SpecSub == InitSub /\ [][NextSub]_vars

\* C34: SUB n, wherever it is fetched from, leaves the registers and flags
\* that sub_8bit computes from A and n: A = (A - n) mod 256, Z iff the
\* result is 0, N = 1, H iff (A & 0x0F) < (n & 0x0F), C iff A < n.
C34_SubImmediate ==
    [][(Stepped /\ obs'.kind = "exec" /\ obs'.op = 214)
         => Registers(cpu') = Registers(sub_8bit(cpu, cpu.a, cpu.b))]_vars

\* ------------------------------------------- HALT bug, second execution
\* C33: in a step that executes twice for the HALT bug, the second
\* execution fetches its opcode at the address the first one fetched it at
\* (the byte behind HALT) and decodes the same byte, whatever the opcode is.
C33_HaltBugSecondFetch ==
    [][(Stepped /\ obs'.kind = "halt_bug" /\ obs'.op2 # -1)
         => /\ obs'.at = W16(obs.halt_at + 1)
            /\ obs'.at2 = obs'.at
            /\ obs'.op2 = obs'.op]_vars

\* ------------------------------------------------- batching of T-cycles
\* T-cycle counts of one update call
BatchCycles == {0, 1, 4, 8, 12}

\* n successive calls update(1)
RECURSIVE ticks(_, _)
ticks(d, n) == IF n = 0 THEN d ELSE ticks(update(d, 1), n - 1)

\* C36: from every timer state, update(a) followed by update(b) leaves the
\* timer and its registers (DIV, TIMA, the counters, the reload countdown,
\* IF) as one update(a + b) does, and as a + b updates of one T-cycle do.
C36_BatchingIndependent ==
    \A a \in BatchCycles, b \in BatchCycles :
        /\ update(update(Device(timer, mem), a), b)
               = update(Device(timer, mem), a + b)
        /\ ticks(Device(timer, mem), a + b)
               = update(Device(timer, mem), a + b)

\* ------------------------------------------------------ banking registers
\* C37: after any sequence of bus writes rom_bank is in 1..127 with nonzero
\* low five bits, ram_bank is in 0..3 and banking_mode is 0 or 1; a write
\* of 0 to 0x2000..0x3FFF leaves the memory a write of 1 there leaves.
C37_BankRegisters ==
    /\ mem.rom_bank \in 1..127
    /\ mem.rom_bank % 32 # 0
    /\ mem.ram_bank \in 0..3
    /\ mem.banking_mode \in {0, 1}
    /\ \A address \in {8192, 12288, 16383} :
          write_byte(mem, address, 0) = write_byte(mem, address, 1)

\* a write of 0 to 0x2000..0x3FFF has been made with the high bank bits set
C37_Witness ==
    /\ obs.kind = "write"
    /\ obs.address \in 8192..16383
    /\ obs.value % 32 = 0
    /\ mem.rom_bank = 33

\* ------------------------------------------------- plain PPU registers
\* SCY, SCX, LYC, BGP, OBP0, OBP1, WY, WX
PlainRegisters == {65346, 65347, 65349, 65351, 65352, 65353, 65354, 65355}
RegisterValues == {0, 64, 65, 143, 255}

NextRegisters ==
    \E address \in PlainRegisters, value \in RegisterValues :
        BusWrite(address, value)
SpecRegisters == InitBus /\ [][NextRegisters]_vars

\* C38: a bus read of a plain PPU register returns the byte last written
\* to it on the bus.
C38_RegisterReadBack ==
    (obs.kind = "write" /\ obs.address \in PlainRegisters)
        => Peek(mem, obs.address) = obs.value

\* ------------------------------------------------ requests stay pending
\* C35: a call of PPU.step clears no bit of IF: every request bit that is
\* set before the call is set after it.
C35_TickKeepsRequests ==
    [][PpuStepped =>
         \A b \in 0..4 : TestBit(IF_of(mem), b) => TestBit(IF_of(mem'), b)]_vars
====
